---------------------------- MODULE Spec2Model ----------------------------
(***************************************************************************)
(* Circular-statistics periodicity engine of erebus-vee-two (topic-a2):    *)
(* the cluster-robust Schuster test, the MFPA bootstrap scan, the Rayleigh *)
(* helpers and the sensitivity layer, as pure functions applied to inputs  *)
(* drawn from bounded sets.                                                *)
(*                                                                         *)
(* Numbers.  A Python/numpy float is a record [k, n, d]:                   *)
(*   k = "fin"     the rational n/d (d > 0, lowest terms)                  *)
(*   k = "nan"     IEEE NaN                                                *)
(*   k = "inf"     IEEE infinity with the sign of n                        *)
(*   k = "expneg"  exp(-(n/d)) with n/d > 0   (a p-value below 1)          *)
(*   k = "sqrt"    sqrt(n/d), n/d not the square of a rational             *)
(*   k = "dir"     the angle atan2(n, d) of a non-axis direction (d, n),   *)
(*                 in (-1/2, 1/2] turns; k = "turn": the same in [0, 1)    *)
(*   k = "negsqrt" -sqrt(n/d)                                              *)
(*   k = "chi2sf", "spearman_p": a p-value of scipy, kept as the statistic *)
(*                 n/d it is the (strictly monotone) function of           *)
(* Times and periods are whole days; angles are measured in turns (1 = 2*pi      *)
(* rad), so the angles of the model lie on the quarter-turn grid where     *)
(* cos and sin are exact; cos/sin of an off-axis direction are rounded to  *)
(* 1/TrigScale.                                                            *)
(***************************************************************************)
EXTENDS Integers, Sequences, FiniteSets, TLC

VARIABLES
    fn,               \* the function that was called ("none" before the call)
    args,             \* the arguments of the call
    ret,              \* what the call returned or raised
    np_global_state,  \* numpy's process-wide (legacy) random state
    earlier           \* an earlier call of the process: [fn, args, ret]

vars == <<fn, args, ret, np_global_state, earlier>>

\* ------------------------------------------------------------------ bounds
MaxEvents == 5      \* longest ascending event array
MaxUnsorted == 3    \* longest event array that need not be ascending
MaxTime == 3        \* largest event time (days)
TrigScale == 100    \* resolution of cos/sin off the quarter-turn grid
MaxScanEvents == 3  \* longest event array of an MFPA scan
MaxBootstrap == 3   \* most bootstrap replicates
MaxAmbientDraws == 1  \* most draws other code takes from numpy's global state
MaxPhases == 3      \* longest phase array of a Rayleigh test
MaxCatalog == 2     \* longest catalog of a single sub-A run
MaxBins == 5         \* most phase bins of a count vector
MaxCount == 3        \* largest count of a bin
MaxSubBEvents == 2   \* longest catalog of a single sub-B run
MaxHalfCycleIntervals == 2   \* longest interval list of a half-cycle call
MaxPhaseTimes == 2    \* longest solar_secs array of a compute_phase call
MaxPhaseHalves == 9   \* largest |t| of these, in half seconds
MaxMatchRows == 2     \* most rows of a catalog in proximity matching
MaxCoherenceRows == 4 \* most different events of a phase-coherence catalog
MaxQuarterDays == 1800  \* longest period given to a1b_consistency_label, in quarter days

\* ------------------------------------------------------------- float layer
Abs(i) == IF i < 0 THEN -i ELSE i

RECURSIVE GCD(_, _)
GCD(a, b) == IF b = 0 THEN a ELSE GCD(b, a % b)

Fin(n, d) ==
    LET g == GCD(Abs(n), Abs(d))
        s == IF d < 0 THEN -1 ELSE 1
    IN  [k |-> "fin", n |-> (s * n) \div g, d |-> (s * d) \div g]

NaN == [k |-> "nan", n |-> 0, d |-> 1]
Inf(sign) == [k |-> "inf", n |-> sign, d |-> 1]
Zero == Fin(0, 1)
One == Fin(1, 1)

IsNaN(x) == x.k = "nan"
IsFinite(x) == x.k \notin {"nan", "inf"}

\* x + y, x - y, x * y, x / y on rationals, NaN-propagating as IEEE floats
FAdd(x, y) ==
    IF x.k = "fin" /\ y.k = "fin" THEN Fin(x.n * y.d + y.n * x.d, x.d * y.d) ELSE NaN
FNeg(x) == IF x.k = "fin" THEN Fin(-x.n, x.d) ELSE NaN
FSub(x, y) == FAdd(x, FNeg(y))
FMul(x, y) ==
    IF x.k = "fin" /\ y.k = "fin" THEN Fin(x.n * y.n, x.d * y.d) ELSE NaN
\* numpy division: x/0 is nan for x = 0 or nan, and +-inf otherwise
FDiv(x, y) ==
    IF x.k # "fin" \/ y.k # "fin" THEN NaN
    ELSE IF y.n = 0 THEN (IF x.n = 0 THEN NaN ELSE Inf(IF x.n > 0 THEN 1 ELSE -1))
    ELSE Fin(x.n * y.d, x.d * y.n)
FAbs(x) == IF x.k = "fin" /\ x.n < 0 THEN FNeg(x) ELSE x
FLt(x, y) == x.k = "fin" /\ y.k = "fin" /\ x.n * y.d < y.n * x.d
FLe(x, y) == x.k = "fin" /\ y.k = "fin" /\ x.n * y.d <= y.n * x.d

RECURSIVE FSum(_)
FSum(xs) == IF xs = <<>> THEN Zero ELSE FAdd(Head(xs), FSum(Tail(xs)))

\* np.mean: nan for an empty array (0/0)
np_mean(xs) == FDiv(FSum(xs), Fin(Len(xs), 1))

\* floor(sqrt(v)) for v >= 0, by bisection on lo..hi
RECURSIVE ISqrtIn(_, _, _)
ISqrtIn(v, lo, hi) ==
    IF lo = hi THEN lo
    ELSE LET mid == (lo + hi + 1) \div 2
         IN  IF mid * mid <= v THEN ISqrtIn(v, mid, hi) ELSE ISqrtIn(v, lo, mid - 1)
ISqrt(v) == ISqrtIn(v, 0, v)

\* np.sqrt of a rational >= 0: exact when n and d are squares
np_sqrt(x) ==
    IF x.k # "fin" \/ x.n < 0 THEN NaN
    ELSE LET rn == ISqrt(x.n)
             rd == ISqrt(x.d)
         IN  IF rn * rn = x.n /\ rd * rd = x.d THEN Fin(rn, rd)
             ELSE [k |-> "sqrt", n |-> x.n, d |-> x.d]

\* x ** 2, undoing np_sqrt
FSquare(x) == IF x.k = "sqrt" THEN Fin(x.n, x.d) ELSE FMul(x, x)

\* np.exp(-x) for x >= 0
np_exp_neg(x) ==
    IF x.k # "fin" THEN NaN
    ELSE IF x.n = 0 THEN One
    ELSE [k |-> "expneg", n |-> x.n, d |-> x.d]

\* -log(p) of a p-value: exp is strictly decreasing, so p >= q iff
\* NegLog(p) <= NegLog(q)
NegLog(p) == IF p.k = "expneg" THEN Fin(p.n, p.d) ELSE IF p = One THEN Zero ELSE NaN
PGe(p, q) == FLe(NegLog(p), NegLog(q))

\* unit vector of the direction (x, y) # (0, 0): exact on the axes,
\* rounded down in magnitude to 1/TrigScale elsewhere
UnitComponent(c, x, y) ==
    LET m == x * x + y * y
        r == ISqrtIn((c * c * TrigScale * TrigScale) \div m, 0, TrigScale)
    IN  Fin(IF c < 0 THEN -r ELSE r, TrigScale)

\* the direction of an angle: turns on the quarter grid, or an atan2 result
DirOf(a) ==
    IF a.k = "dir" THEN <<a.d, a.n>>
    ELSE LET q == ((4 * a.n) \div a.d) % 4
         IN  CASE q = 0 -> <<1, 0>> [] q = 1 -> <<0, 1>>
               [] q = 2 -> <<-1, 0>> [] q = 3 -> <<0, -1>>

np_cos(a) ==
    IF a.k \notin {"fin", "dir"} THEN NaN
    ELSE LET v == DirOf(a) IN UnitComponent(v[1], v[1], v[2])
np_sin(a) ==
    IF a.k \notin {"fin", "dir"} THEN NaN
    ELSE LET v == DirOf(a) IN UnitComponent(v[2], v[1], v[2])

\* np.arctan2(y, x) in turns, in (-1/2, 1/2]; arctan2(0, 0) = 0
np_arctan2(y, x) ==
    IF y.k # "fin" \/ x.k # "fin" THEN NaN
    ELSE LET yy == y.n * x.d
             xx == x.n * y.d
             g == GCD(Abs(yy), Abs(xx))
         IN  IF g = 0 THEN Zero
             ELSE LET b == yy \div g
                      a == xx \div g
                  IN  CASE b = 0 /\ a > 0 -> Zero
                        [] b = 0 /\ a < 0 -> Fin(1, 2)
                        [] a = 0 /\ b > 0 -> Fin(1, 4)
                        [] a = 0 /\ b < 0 -> Fin(-1, 4)
                        [] OTHER -> [k |-> "dir", n |-> b, d |-> a]

\* element-wise map over an array
RECURSIVE MapSeq(_, _)
MapSeq(F(_), xs) == IF xs = <<>> THEN <<>> ELSE <<F(Head(xs))>> \o MapSeq(F, Tail(xs))

\* a call returns a value or raises
Returned(v) == [raised |-> "none", value |-> v]
Raised(exc) == [raised |-> exc, value |-> <<>>]

\* ------------------------------------------------- case-a1-schuster.py
DEFAULT_DT_CLUSTER_DAYS == 1

\* mutant: no guard for an empty sum
compute_d2_unguarded(cos_sum, sin_sum, n) ==
    FDiv(FAdd(FMul(cos_sum, cos_sum), FMul(sin_sum, sin_sum)), Fin(n, 1))

\* _compute_d2
compute_d2(cos_sum, sin_sum, n) ==
    IF n = 0 THEN Zero
    ELSE FDiv(FAdd(FMul(cos_sum, cos_sum), FMul(sin_sum, sin_sum)), Fin(n, 1))

\* _standard_p_from_d2
standard_p_from_d2(d2) == np_exp_neg(d2)

\* mutant: a gap equal to the threshold no longer splits
StartsNewClusterStrict(iet, dt_cluster) == iet > dt_cluster

\* the comparison of assign_clusters' sweep: a gap of at least dt_cluster
\* starts a new cluster
StartsNewCluster(iet, dt_cluster) == iet >= dt_cluster

\* mutant: the id skips a number at every split
NextClusterIdSkipping(current_id) == current_id + 2

\* current_id += 1
NextClusterId(current_id) == current_id + 1

\* the loop of assign_clusters from event i on, cluster_ids[1..i-1] done
RECURSIVE ClusterSweep(_, _, _, _, _)
ClusterSweep(event_time_days, dt_cluster, i, current_id, cluster_ids) ==
    IF i > Len(event_time_days) THEN cluster_ids
    ELSE LET iet == event_time_days[i] - event_time_days[i - 1]
             id == IF StartsNewCluster(iet, dt_cluster)
                   THEN NextClusterId(current_id) ELSE current_id
         IN  ClusterSweep(event_time_days, dt_cluster, i + 1, id,
                          Append(cluster_ids, id))

assign_clusters(event_time_days, dt_cluster) ==
    IF Len(event_time_days) = 0 THEN <<>>
    ELSE ClusterSweep(event_time_days, dt_cluster, 2, 0, <<0>>)

\* numpy float  t % T  for an integer t: the sign of T, nan for T = 0 or nan
PyMod(t, T) ==
    IF T.k # "fin" \/ T.n = 0 THEN NaN
    ELSE IF T.n > 0 THEN Fin((t * T.d) % T.n, T.d)
    ELSE Fin(-(((-t) * T.d) % (-T.n)), T.d)

\* compute_phases: 2*pi * ((t % T) / T), here in turns
compute_phases(event_time_days, period_days) ==
    LET phase(t) == FDiv(PyMod(t, period_days), period_days)
    IN  MapSeq(phase, event_time_days)

\* phases[mask] for mask = (cluster_ids == cid)
RECURSIVE Masked(_, _, _)
Masked(xs, cluster_ids, cid) ==
    IF xs = <<>> THEN <<>>
    ELSE (IF Head(cluster_ids) = cid THEN <<Head(xs)>> ELSE <<>>)
         \o Masked(Tail(xs), Tail(cluster_ids), cid)

\* mutant: the cluster votes with its (shrunk) mean vector
ClusterVoteMeanVector(cluster_phases) ==
    <<np_mean(MapSeq(np_cos, cluster_phases)), np_mean(MapSeq(np_sin, cluster_phases))>>

\* the vote of one cluster: the unit vector at its mean resultant direction
ClusterVote(cluster_phases) ==
    LET mc == np_mean(MapSeq(np_cos, cluster_phases))
        ms == np_mean(MapSeq(np_sin, cluster_phases))
        angle == np_arctan2(ms, mc)
    IN  <<np_cos(angle), np_sin(angle)>>

\* n_clusters = int(cluster_ids[-1] + 1) if n_events > 0 else 0
NClusters(cluster_ids) ==
    IF Len(cluster_ids) > 0 THEN cluster_ids[Len(cluster_ids)] + 1 ELSE 0

\* the cluster-robust half of schuster_single_period / schuster_spectrum
ClusterRobustD2(phases, cluster_ids) ==
    LET n_clusters == NClusters(cluster_ids)
        votes == [cid \in 0 .. n_clusters - 1 |->
                     ClusterVote(Masked(phases, cluster_ids, cid))]
        cluster_unit_cos == [i \in 1 .. n_clusters |-> votes[i - 1][1]]
        cluster_unit_sin == [i \in 1 .. n_clusters |-> votes[i - 1][2]]
    IN  compute_d2(FSum(cluster_unit_cos), FSum(cluster_unit_sin), n_clusters)

schuster_single_period(event_time_days, period_days, dt_cluster) ==
    LET n_events == Len(event_time_days)
        phases == compute_phases(event_time_days, period_days)
        cos_sum == FSum(MapSeq(np_cos, phases))
        sin_sum == FSum(MapSeq(np_sin, phases))
        d2_standard == compute_d2(cos_sum, sin_sum, n_events)
        cluster_ids == assign_clusters(event_time_days, dt_cluster)
        d2_cluster == ClusterRobustD2(phases, cluster_ids)
    IN  IF n_events = 0
        THEN [n_events |-> 0, n_clusters |-> 0, D2 |-> Zero,
              p_standard |-> One, p_cluster_robust |-> One]
        ELSE [n_events |-> n_events,
              n_clusters |-> NClusters(cluster_ids),
              D2 |-> d2_standard,
              p_standard |-> standard_p_from_d2(d2_standard),
              p_cluster_robust |-> standard_p_from_d2(d2_cluster)]

\* np.logspace(np.log10(lo), np.log10(hi), num): the geometric grid from lo
\* to hi when both are positive (grids of the model have an integer ratio).
\* log10 of zero is -inf and of a negative number nan, and linspace then
\* yields nan everywhere but at its end point, which it sets to the stop
\* value itself.
RECURSIVE Pow(_, _)
Pow(b, e) == IF e = 0 THEN 1 ELSE b * Pow(b, e - 1)

np_logspace(lo, hi, num) ==
    LET ratio == CHOOSE r \in 1 .. hi : lo * Pow(r, num - 1) = hi
        ten_pow_log10(x) == IF x > 0 THEN Fin(x, 1) ELSE IF x = 0 THEN Zero ELSE NaN
    IN  [i \in 1 .. num |->
            IF lo > 0 /\ hi > 0
            THEN (IF num = 1 THEN Fin(lo, 1) ELSE Fin(lo * Pow(ratio, i - 1), 1))
            ELSE IF i = num /\ num > 1 THEN ten_pow_log10(hi)
            ELSE IF lo > 0 /\ hi = 0 /\ i > 1 THEN Zero
            ELSE NaN]

schuster_spectrum(event_time_days, dt_cluster, n_periods, min_period_days, max_period_days) ==
    LET periods == np_logspace(min_period_days, max_period_days, n_periods)
        cluster_ids == assign_clusters(event_time_days, dt_cluster)
        n_events == Len(event_time_days)
        entry(T) ==
            LET phases == compute_phases(event_time_days, T)
                cos_sum == FSum(MapSeq(np_cos, phases))
                sin_sum == FSum(MapSeq(np_sin, phases))
                d2_std == compute_d2(cos_sum, sin_sum, n_events)
                d2_cr == ClusterRobustD2(phases, cluster_ids)
            IN  [period_days |-> T,
                 D2 |-> d2_std,
                 p_standard |-> standard_p_from_d2(d2_std),
                 p_cluster_robust |-> standard_p_from_d2(d2_cr)]
    IN  MapSeq(entry, periods)

\* ----------------------------------------------------- case-a1-mfpa.py
\* Python's max(1, int(x)) and x % 1.0 are taken on exact rationals.
A1B_INTERVALS ==
    <<<<Fin(3, 16), Fin(1, 4)>>, <<Fin(5, 8), Fin(82, 125)>>,
      <<Fin(7, 8), Fin(917, 1000)>>>>

mfpa_power(phases) ==
    LET n == Len(phases)
        re == FSum(MapSeq(np_cos, phases))
        im == FSum(MapSeq(np_sin, phases))
    IN  IF n = 0 THEN Zero
        ELSE FDiv(FAdd(FMul(re, re), FMul(im, im)), Fin(n, 1))

\* The generator: a state, stepped once per drawn number.  A draw of
\* rng.uniform(0, 2*pi) is the state's quarter turn.
RngStep(state) == (state * 37 + 11) % 256
RngPhase(state) == Fin((state \div 8) % 4, 4)

\* mutant: the generator is numpy's global one, whatever the seed
np_random_global(rng_seed) == (np_global_state * 97 + 5) % 256

\* np.random.default_rng(rng_seed): a generator of its own, set from the seed
np_random_default_rng(rng_seed) == (rng_seed * 97 + 5) % 256

\* rng.uniform(0, 2*pi, size=n): <<the n phases, the generator afterwards>>
RECURSIVE rng_uniform(_, _)
rng_uniform(state, n) ==
    IF n = 0 THEN <<<<>>, state>>
    ELSE LET s1 == RngStep(state)
             rest == rng_uniform(s1, n - 1)
         IN  <<<<RngPhase(s1)>> \o rest[1], rest[2]>>

\* ascending sort of an array of floats
RECURSIVE SortFloats(_)
SortFloats(xs) ==
    IF xs = <<>> THEN <<>>
    ELSE LET i == CHOOSE i \in 1 .. Len(xs) : \A j \in 1 .. Len(xs) : FLe(xs[i], xs[j])
         IN  <<xs[i]>> \o SortFloats(SubSeq(xs, 1, i - 1) \o SubSeq(xs, i + 1, Len(xs)))

\* np.percentile(xs, q): linear interpolation between the order statistics
\* around rank q/100 * (N - 1)
np_percentile(xs, q) ==
    LET sorted == SortFloats(xs)
        N == Len(xs)
        lo == (q * (N - 1)) \div 100
        frac == Fin((q * (N - 1)) % 100, 100)
    IN  IF lo + 1 >= N THEN sorted[N]
        ELSE FAdd(sorted[lo + 1], FMul(frac, FSub(sorted[lo + 2], sorted[lo + 1])))

\* the bootstrap loop: replicate k's null power, k = 1 .. n_bootstrap
RECURSIVE NullPowers(_, _, _)
NullPowers(state, n, n_bootstrap) ==
    IF n_bootstrap = 0 THEN <<>>
    ELSE LET drawn == rng_uniform(state, n)
         IN  <<mfpa_power(drawn[1])>> \o NullPowers(drawn[2], n, n_bootstrap - 1)

bootstrap_null_percentiles(n, n_bootstrap, rng_seed) ==
    LET rng == np_random_default_rng(rng_seed)
        null_powers == NullPowers(rng, n, n_bootstrap)
    IN  <<np_percentile(null_powers, 95), np_percentile(null_powers, 99)>>

\* mutant: the label is chosen by the number of intervals hit
a1b_label_by_count(hit_indices) ==
    CASE Cardinality(hit_indices) = 0 -> "inconsistent with all A1b intervals"
      [] Cardinality(hit_indices) = 1 -> "consistent with interval 1 only"
      [] Cardinality(hit_indices) = 2 -> "consistent with intervals 1+2"
      [] OTHER -> "consistent with all three intervals (4-month if applicable)"

\* the if/elif chain over hit_count and hit_indices, and the "+".join fallback
a1b_label_of(hit_indices) ==
    CASE hit_indices = {} -> "inconsistent with all A1b intervals"
      [] hit_indices = {1} -> "consistent with interval 1 only"
      [] hit_indices = {1, 2} -> "consistent with intervals 1+2"
      [] hit_indices = {1, 3} -> "consistent with intervals 1+3 (6-month)"
      [] hit_indices = {2, 3} -> "consistent with intervals 2+3"
      [] hit_indices = {1, 2, 3} ->
             "consistent with all three intervals (4-month if applicable)"
      [] hit_indices = {2} -> "consistent with intervals 2"
      [] hit_indices = {3} -> "consistent with intervals 3"

\* int(year_days / period_days): truncation toward zero of (1461/4) / (n/d)
IntYearOverPeriod(T) ==
    LET ratio == Fin(1461 * T.d, 4 * T.n)
    IN  IF ratio.n >= 0 THEN ratio.n \div ratio.d ELSE -((-ratio.n) \div ratio.d)

\* (k * period_days / year_days) % 1.0
PredictedPhase(k, T) ==
    [k |-> "fin", n |-> (4 * k * T.n) % (1461 * T.d), d |-> 1461 * T.d]

\* the intervals hit by a predicted phase with k in ks
HitIndices(T, intervals, ks) ==
    {idx \in 1 .. Len(intervals) :
        \E k \in ks : /\ FLe(intervals[idx][1], PredictedPhase(k, T))
                      /\ FLe(PredictedPhase(k, T), intervals[idx][2])}

\* a1b_consistency_label (a caller that gives no intervals passes
\* A1B_INTERVALS): the label, or the error of int() on a period that is nan
\* (ValueError) or zero (365.25 / 0.0 = inf: OverflowError)
a1b_consistency_label(period_days, intervals) ==
    LET T == period_days
        int_ratio == IntYearOverPeriod(T)
        n_harmonics == IF int_ratio > 1 THEN int_ratio ELSE 1
        hit_indices == HitIndices(T, intervals, 0 .. n_harmonics)
    IN  IF T.k # "fin" THEN Raised("ValueError")
        ELSE IF T.n = 0 THEN Raised("OverflowError")
        ELSE Returned(a1b_label_of(hit_indices))

\* mutant: every cell of the null matrix gets a draw of its own
NullPowersMatrixPerCell(n, n_bootstrap, n_periods, rng_seed) ==
    LET all == NullPowers(np_random_default_rng(rng_seed), n, n_bootstrap * n_periods)
    IN  [k \in 1 .. n_bootstrap |->
            [j \in 1 .. n_periods |-> all[(k - 1) * n_periods + j]]]

\* null_powers_matrix of mfpa_scan: replicate k's power, broadcast over the
\* n_periods columns
NullPowersMatrix(n, n_bootstrap, n_periods, rng_seed) ==
    LET rng == np_random_default_rng(rng_seed)
        null_powers == NullPowers(rng, n, n_bootstrap)
    IN  [k \in 1 .. n_bootstrap |-> [j \in 1 .. n_periods |-> null_powers[k]]]

\* mutant: a power equal to the threshold is flagged too
IsSignificantOrEqual(power, p95) == FLe(p95, power)

\* if power > p95
IsSignificant(power, p95) == FLt(p95, power)

RECURSIVE FilterSignificant(_)
FilterSignificant(spectrum) ==
    IF spectrum = <<>> THEN <<>>
    ELSE LET e == Head(spectrum)
         IN  (IF IsSignificant(e.power, e.p95_threshold)
              THEN <<[period_days |-> e.period_days, power |-> e.power,
                      p_mfpa |-> e.p_mfpa, a1b_consistency |-> e.a1b_consistency]>>
              ELSE <<>>) \o FilterSignificant(Tail(spectrum))

mfpa_scan(event_time_days, n_periods, min_period_days, max_period_days, n_bootstrap, rng_seed) ==
    LET n == Len(event_time_days)
        periods == np_logspace(min_period_days, max_period_days, n_periods)
        null_powers_matrix == NullPowersMatrix(n, n_bootstrap, n_periods, rng_seed)
        column(j) == [k \in 1 .. n_bootstrap |-> null_powers_matrix[k][j]]
        labels == [j \in 1 .. n_periods |-> a1b_consistency_label(periods[j], A1B_INTERVALS)]
        entry(j) ==
            LET T == periods[j]
                power == mfpa_power(compute_phases(event_time_days, T))
                col == column(j)
            IN  [period_days |-> T,
                 power |-> power,
                 p95_threshold |-> np_percentile(col, 95),
                 p99_threshold |-> np_percentile(col, 99),
                 p_mfpa |-> Fin(Cardinality({k \in 1 .. n_bootstrap :
                                                 FLe(power, col[k])}), n_bootstrap),
                 a1b_consistency |-> labels[j].value]
        spectrum == [j \in 1 .. n_periods |-> entry(j)]
        failed == {j \in 1 .. n_periods : labels[j].raised # "none"}
    IN  IF failed # {}
        THEN labels[CHOOSE j \in failed : \A i \in failed : j <= i]
        ELSE Returned([spectrum |-> spectrum,
                       significant_periods |-> FilterSignificant(spectrum)])

\* ------------------------------------- case-a3 / b1 / b6: compute_rayleigh
\* x % 1.0 of an angle in turns
FMod1(x) ==
    CASE x.k = "fin" -> Fin(x.n % x.d, x.d)
      [] x.k = "dir" -> [k |-> "turn", n |-> x.n, d |-> x.d]
      [] OTHER -> NaN

\* case-a3-analysis.py: (R, p_rayleigh, mean_phase_fraction)
compute_rayleigh_a3(phases) ==
    LET n == Len(phases)
        angles == phases
        mean_cos == np_mean(MapSeq(np_cos, angles))
        mean_sin == np_mean(MapSeq(np_sin, angles))
        R == np_sqrt(FAdd(FSquare(mean_cos), FSquare(mean_sin)))
        p_rayleigh == np_exp_neg(FMul(Fin(n, 1), FSquare(R)))
        mean_angle_rad == np_arctan2(mean_sin, mean_cos)
        mean_phase == FMod1(mean_angle_rad)
    IN  <<R, p_rayleigh, mean_phase>>

\* case-b1-analysis.py: the same function, defined again
compute_rayleigh_b1(phases) ==
    LET n == Len(phases)
        angles == phases
        mean_cos == np_mean(MapSeq(np_cos, angles))
        mean_sin == np_mean(MapSeq(np_sin, angles))
        R == np_sqrt(FAdd(FSquare(mean_cos), FSquare(mean_sin)))
        p_rayleigh == np_exp_neg(FMul(Fin(n, 1), FSquare(R)))
        mean_angle_rad == np_arctan2(mean_sin, mean_cos)
        mean_phase == FMod1(mean_angle_rad)
    IN  <<R, p_rayleigh, mean_phase>>

\* case-b6-analysis.py: returns a dict
compute_rayleigh_b6(phases) ==
    LET n == Len(phases)
        angles == phases
        mean_cos == np_mean(MapSeq(np_cos, angles))
        mean_sin == np_mean(MapSeq(np_sin, angles))
        R == np_sqrt(FAdd(FSquare(mean_cos), FSquare(mean_sin)))
        rayleigh_z == FMul(Fin(n, 1), FSquare(R))
        mean_angle_rad == np_arctan2(mean_sin, mean_cos)
    IN  [R |-> R,
         rayleigh_z |-> rayleigh_z,
         p_rayleigh |-> np_exp_neg(rayleigh_z),
         mean_angle_rad |-> mean_angle_rad,
         mean_phase |-> FMod1(mean_angle_rad)]

\* ------------------------------------------------------ case-a4-sub-a.py
\* a negative double too small for 1 - |x| to differ from 1.0 (-1e-20, say)
NegTiny == [k |-> "negtiny", n |-> 0, d |-> 1]

\* (x / year_secs) % 1.0 of one element, year_secs > 0: np.mod adds 1.0 to a
\* negative remainder, and 1.0 + NegTiny rounds to 1.0
PhaseOfSecs(x, year_secs) ==
    IF x = NegTiny THEN (IF year_secs.k = "fin" /\ year_secs.n > 0 THEN One ELSE NaN)
    ELSE FMod1(FDiv(x, year_secs))

compute_phase(solar_secs, year_secs) ==
    LET phase(x) == PhaseOfSecs(x, year_secs) IN MapSeq(phase, solar_secs)

\* A catalog is its solar_secs column in quarters of SOLAR_YEAR_SECS.
SolarSecsOfCatalog(catalog) == [i \in DOMAIN catalog |-> Fin(catalog[i], 1)]
SOLAR_YEAR_SECS == Fin(4, 1)

\* scipy.stats.chisquare(obs, expected): <<statistic, p-value>>
scipy_chisquare(obs, expected) ==
    LET term(i) == FDiv(FSquare(FSub(Fin(obs[i], 1), expected)), expected)
        chi2 == FSum([i \in 1 .. Len(obs) |-> term(i)])
    IN  <<chi2, IF chi2.k # "fin" THEN NaN
                ELSE IF chi2.n = 0 THEN One
                ELSE [k |-> "chi2sf", n |-> chi2.n, d |-> chi2.d]>>

run_sub_a_single(catalog, k) ==
    LET n == Len(catalog)
        phase == compute_phase(SolarSecsOfCatalog(catalog), SOLAR_YEAR_SECS)
        \* floor(phase * k), clipped to 0 .. k-1
        bin_of(i) == LET b == (phase[i].n * k) \div phase[i].d
                     IN  IF b < 0 THEN 0 ELSE IF b > k - 1 THEN k - 1 ELSE b
        obs == [b \in 1 .. k |-> Cardinality({i \in 1 .. n : bin_of(i) = b - 1})]
        expected == Fin(n, k)
        chi == scipy_chisquare(obs, expected)
        angles == phase
        mean_cos == np_mean(MapSeq(np_cos, angles))
        mean_sin == np_mean(MapSeq(np_sin, angles))
        R == np_sqrt(FAdd(FSquare(mean_cos), FSquare(mean_sin)))
    IN  IF n = 0 THEN Raised("ValueError")
        ELSE Returned(
            [n |-> n,
             k |-> k,
             chi2 |-> chi[1],
             p_chi2 |-> chi[2],
             cramer_v |-> np_sqrt(FDiv(chi[1], Fin(n * (k - 1), 1))),
             rayleigh_R |-> R,
             p_rayleigh |-> np_exp_neg(FMul(Fin(n, 1), FSquare(R))),
             mean_phase_fraction |-> FMod1(np_arctan2(mean_sin, mean_cos)),
             bin_counts |-> obs])

\* pct = (chi2_raw - chi2_ms) / chi2_raw * 100 if chi2_raw > 0 else 0.0
chi2_suppression_pct(chi2_raw, chi2_ms) ==
    IF FLt(Zero, chi2_raw)
    THEN FMul(FDiv(FSub(chi2_raw, chi2_ms), chi2_raw), Fin(100, 1))
    ELSE Zero

SubABinCounts == <<16, 24, 32>>
SubAKeys == <<"raw", "gk_mainshocks", "reas_mainshocks", "a1b_mainshocks">>
SubAMethodLabels == <<"gk", "reas", "a1b">>

run_sub_a(catalogs) ==
    LET single == [key \in {SubAKeys[i] : i \in 1 .. 4} |->
                      [j \in 1 .. 3 |-> run_sub_a_single(catalogs[key], SubABinCounts[j])]]
        summary(key) ==
            [j \in 1 .. 3 |->
                LET chi2_raw == single["raw"][j].value.chi2
                    chi2_ms == single[key][j].value.chi2
                IN  [chi2_raw |-> chi2_raw,
                     chi2_mainshock |-> chi2_ms,
                     chi2_suppression_pct |-> chi2_suppression_pct(chi2_raw, chi2_ms)]]
    IN  IF \E i \in 1 .. 4 : Len(catalogs[SubAKeys[i]]) = 0
        THEN Raised("ValueError")
        ELSE Returned(
            [results |-> [key \in DOMAIN single |->
                             [j \in 1 .. 3 |-> single[key][j].value]],
             suppression_summary |->
                 [m \in 1 .. 3 |-> [method |-> SubAMethodLabels[m],
                                    by_k |-> summary(SubAKeys[m + 1])]]])

\* ------------------------------- case-a3-analysis.py: trend analysis
BANDS == <<"M6.0-6.4", "M6.5-6.9", "M7.0-7.4", "M7.5+">>

\* scipy.stats.rankdata, doubled: ties get the average rank
RankTwice(vals, i) ==
    2 * Cardinality({j \in DOMAIN vals : FLt(vals[j], vals[i])})
    + Cardinality({j \in DOMAIN vals : vals[j] = vals[i]}) + 1

RECURSIVE SumTo(_, _)
SumTo(F(_), n) == IF n = 0 THEN 0 ELSE F(n) + SumTo(F, n - 1)

\* scipy.stats.spearmanr: <<rho, p-value>>, the Pearson correlation of the
\* ranks; nan for a constant input
scipy_spearmanr(xs, ys) ==
    LET n == Len(xs)
        dx(i) == RankTwice(xs, i) - (n + 1)
        dy(i) == RankTwice(ys, i) - (n + 1)
        dxdy(i) == dx(i) * dy(i)
        dxdx(i) == dx(i) * dx(i)
        dydy(i) == dy(i) * dy(i)
        S == SumTo(dxdy, n)
        Q == SumTo(dxdx, n) * SumTo(dydy, n)
        root == ISqrt(Q)
        rho == IF Q = 0 THEN NaN
               ELSE IF root * root = Q THEN Fin(S, root)
               ELSE LET sq == Fin(S * S, Q)
                    IN  [k |-> IF S < 0 THEN "negsqrt" ELSE "sqrt",
                         n |-> sq.n, d |-> sq.d]
        p == IF Q = 0 THEN NaN
             ELSE IF S * S = Q THEN Zero
             ELSE LET sq == Fin(S * S, Q)
                  IN  [k |-> "spearman_p", n |-> sq.n, d |-> sq.d]
    IN  <<rho, p>>

\* rho > 0.5, rho < -0.5 for a rho of scipy_spearmanr
RhoAboveHalf(rho) ==
    \/ FLt(Fin(1, 2), rho)
    \/ rho.k = "sqrt" /\ 4 * rho.n > rho.d
RhoBelowMinusHalf(rho) ==
    \/ FLt(rho, Fin(-1, 2))
    \/ rho.k = "negsqrt" /\ 4 * rho.n > rho.d

\* max(band_labels, key=...): the first band with the largest value
ArgMaxFirst(vals) ==
    CHOOSE i \in DOMAIN vals :
        /\ \A j \in DOMAIN vals : FLe(vals[j], vals[i])
        /\ \A j \in 1 .. i - 1 : FLt(vals[j], vals[i])

RECURSIVE SelectSeq2(_, _)
SelectSeq2(xs, keep) ==
    IF xs = <<>> THEN <<>>
    ELSE (IF Head(keep) THEN <<Head(xs)>> ELSE <<>>) \o SelectSeq2(Tail(xs), Tail(keep))

\* v_max / v_min if v_min > 0 else float("inf")
cramer_v_ratio(v_max, v_min) ==
    IF FLt(Zero, v_min) THEN FDiv(v_max, v_min) ELSE Inf(1)

\* mutant: a flat trend no longer counts for the solar-geometric prediction
IsIncreasing(trend_classification) == trend_classification = "increasing"

\* trend_classification in ("flat", "increasing")
IsFlatOrIncreasing(trend_classification) ==
    trend_classification \in {"flat", "increasing"}

\* band_stats[i] is band_stats[BANDS[i]]["k24"]
compute_trend_analysis(band_stats) ==
    LET band_indices == [i \in 1 .. 4 |-> Fin(i, 1)]
        v_vals == [i \in 1 .. 4 |-> band_stats[i].cramer_v]
        r_vals == [i \in 1 .. 4 |-> band_stats[i].rayleigh_R]
        sp_v == scipy_spearmanr(band_indices, v_vals)
        sp_r == scipy_spearmanr(band_indices, r_vals)
        rho_v == sp_v[1]
        trend_classification ==
            IF RhoAboveHalf(rho_v) THEN "increasing"
            ELSE IF RhoBelowMinusHalf(rho_v) THEN "decreasing"
            ELSE "flat"
        significant_bands ==
            SelectSeq2(BANDS, [i \in 1 .. 4 |-> FLt(band_stats[i].p_chi2, Fin(5, 100))])
        m75_significant == \E i \in DOMAIN significant_bands : significant_bands[i] = "M7.5+"
        hydro ==
            IF ~m75_significant /\ trend_classification = "decreasing" THEN "supported"
            ELSE IF ~m75_significant \/ trend_classification = "decreasing" THEN "partially"
            ELSE "not supported"
        solar_geo ==
            IF IsFlatOrIncreasing(trend_classification) /\ m75_significant
            THEN "supported"
            ELSE IF IsFlatOrIncreasing(trend_classification) \/ m75_significant
            THEN "partially"
            ELSE "not supported"
        max_band == BANDS[ArgMaxFirst(v_vals)]
        tidal ==
            IF max_band = "M6.0-6.4" THEN "supported"
            ELSE IF FLt(v_vals[4], v_vals[1]) THEN "partially"
            ELSE "not supported"
        v_max == v_vals[ArgMaxFirst(v_vals)]
        v_min == v_vals[ArgMaxFirst(MapSeq(FNeg, v_vals))]
        ratio == cramer_v_ratio(v_max, v_min)
        mag_indep ==
            IF FLt(ratio, Fin(3, 2)) THEN "supported"
            ELSE IF FLt(ratio, Fin(2, 1)) THEN "partially"
            ELSE "not supported"
    IN  [cramer_v_by_band |-> v_vals,
         rayleigh_R_by_band |-> r_vals,
         spearman_rho_cramer_v |-> rho_v,
         spearman_p_cramer_v |-> sp_v[2],
         spearman_rho_rayleigh |-> sp_r[1],
         spearman_p_rayleigh |-> sp_r[2],
         trend_classification |-> trend_classification,
         significant_bands |-> significant_bands,
         m75_significant |-> m75_significant,
         cramer_v_ratio_max_min |-> ratio,
         prediction_support |->
             [hydrological_loading |-> hydro,
              solar_geometric |-> solar_geo,
              tidal_literature_pattern |-> tidal,
              magnitude_independent |-> mag_indep]]

\* ------------------------------------- elevated bins and their intervals
\* mutant: a count equal to the threshold is elevated too
AboveOrAtThreshold(count, expected) ==
    LET diff == FSub(Fin(count, 1), expected)
    IN  /\ FLe(Zero, expected)
        /\ FLe(Zero, diff)
        /\ FLe(expected, FSquare(diff))

\* count > expected + np.sqrt(expected): with diff = count - expected,
\* diff > sqrt(expected); False when the threshold is nan
AboveThreshold(count, expected) ==
    LET diff == FSub(Fin(count, 1), expected)
    IN  /\ FLe(Zero, expected)
        /\ FLt(Zero, diff)
        /\ FLt(expected, FSquare(diff))

RECURSIVE ElevatedFrom(_, _, _)
ElevatedFrom(obs, expected, i) ==
    IF i >= Len(obs) THEN <<>>
    ELSE (IF AboveThreshold(obs[i + 1], expected) THEN <<i>> ELSE <<>>)
         \o ElevatedFrom(obs, expected, i + 1)

\* case-a4-sub-b.py: the elevated bin indices (from 0), ascending
identify_elevated_bins(obs, expected_per_bin) == ElevatedFrom(obs, expected_per_bin, 0)

\* mutant: a run goes on over one bin that is not elevated
IsNextBinOrGap(idx, prev, k) == idx = prev + 1 \/ idx = prev + 2

\* if idx == prev + 1
IsNextBin(idx, prev, k) == idx = prev + 1

RECURSIVE MergeSweep(_, _, _, _, _)
MergeSweep(rest, start, prev, merged, k) ==
    IF rest = <<>> THEN Append(merged, <<start, prev>>)
    ELSE LET idx == Head(rest)
         IN  IF IsNextBin(idx, prev, k)
             THEN MergeSweep(Tail(rest), start, idx, merged, k)
             ELSE MergeSweep(Tail(rest), idx, idx, Append(merged, <<start, prev>>), k)

\* case-a4-sub-b.py: (start_bin, end_bin) ranges, inclusive
merge_adjacent_bins(elevated, k) ==
    IF elevated = <<>> THEN <<>>
    ELSE MergeSweep(Tail(elevated), Head(elevated), Head(elevated), <<>>, k)

\* Python's round(x, 6) of x >= 0, in millionths: halves go to the even
Round6(x) ==
    LET q == (x.n * 1000000) \div x.d
        r == (x.n * 1000000) % x.d
    IN  IF 2 * r > x.d \/ (2 * r = x.d /\ q % 2 = 1) THEN q + 1 ELSE q

\* the inner while loop: the first index from i on that is k or not elevated
RECURSIVE RunEnd(_, _, _)
RunEnd(elevated_mask, k, i) ==
    IF i < k /\ elevated_mask[i + 1] THEN RunEnd(elevated_mask, k, i + 1) ELSE i

\* the outer while loop of find_elevated_intervals
RECURSIVE RunScan(_, _, _)
RunScan(elevated_mask, k, i) ==
    IF i >= k THEN <<>>
    ELSE IF elevated_mask[i + 1]
    THEN LET start_bin == i
             end_bin == RunEnd(elevated_mask, k, i)
             phase_start == Fin(start_bin, k)
             phase_end == Fin(end_bin, k)
             mean_phase == FDiv(FAdd(phase_start, phase_end), Fin(2, 1))
         IN  <<[phase_start |-> Round6(phase_start),
                phase_end |-> Round6(phase_end),
                mean_phase |-> Round6(mean_phase)]>>
             \o RunScan(elevated_mask, k, end_bin)
    ELSE RunScan(elevated_mask, k, i + 1)

\* case-a3-analysis.py: intervals in millionths of a cycle
find_elevated_intervals_a3(bin_counts, k, n) ==
    LET expected == Fin(n, k)
        elevated_mask == [i \in 1 .. Len(bin_counts) |->
                             AboveThreshold(bin_counts[i], expected)]
    IN  RunScan(elevated_mask, k, 0)

\* case-b1-analysis.py: the same function, defined again
find_elevated_intervals_b1(bin_counts, k, n) ==
    LET expected == Fin(n, k)
        elevated_mask == [i \in 1 .. Len(bin_counts) |->
                             AboveThreshold(bin_counts[i], expected)]
    IN  RunScan(elevated_mask, k, 0)

\* ---------------------------------------------------- case-a4-sub-b.py
\* mutant: the second baseline reaches back over the first
A1B_BASELINE_INTERVALS_OVERLAPPING ==
    <<[id |-> 1, phase_start |-> Fin(3, 16), phase_end |-> Fin(1, 4)],
      [id |-> 2, phase_start |-> Fin(3, 16), phase_end |-> Fin(82, 125)],
      [id |-> 3, phase_start |-> Fin(7, 8), phase_end |-> Fin(917, 1000)]>>

\* id, phase_start, phase_end of the A1b baseline intervals, in list order
A1B_BASELINE_INTERVALS ==
    <<[id |-> 1, phase_start |-> Fin(3, 16), phase_end |-> Fin(1, 4)],
      [id |-> 2, phase_start |-> Fin(5, 8), phase_end |-> Fin(82, 125)],
      [id |-> 3, phase_start |-> Fin(7, 8), phase_end |-> Fin(917, 1000)]>>

FMin(x, y) == IF FLt(y, x) THEN y ELSE x
FMax(x, y) == IF FLt(x, y) THEN y ELSE x

\* mutant: the inclusive end bin is taken as the end of the interval
bins_to_phase_interval_exclusive(start_bin, end_bin, k) == <<Fin(start_bin, k), Fin(end_bin, k)>>

\* (phase_start, phase_end) of the bins start_bin .. end_bin out of k
bins_to_phase_interval(start_bin, end_bin, k) == <<Fin(start_bin, k), Fin(end_bin + 1, k)>>

\* mutant: the overlap as a fraction of interval B
overlap_fraction_of_b(a_start, a_end, b_start, b_end) ==
    LET b_width == FSub(b_end, b_start)
        overlap == FMax(Zero, FSub(FMin(a_end, b_end), FMax(a_start, b_start)))
    IN  IF FLe(b_width, Zero) THEN Zero ELSE FDiv(overlap, b_width)

overlap_fraction(a_start, a_end, b_start, b_end) ==
    LET a_width == FSub(a_end, a_start)
        overlap == FMax(Zero, FSub(FMin(a_end, b_end), FMax(a_start, b_start)))
    IN  IF FLe(a_width, Zero) THEN Zero ELSE FDiv(overlap, a_width)

\* mutant: half an overlap is a match
MatchesBaselineOrHalf(frac) == FLe(Fin(1, 2), frac)

\* if frac > 0.5
MatchesBaseline(frac) == FLt(Fin(1, 2), frac)

\* f"matches interval {baseline['id']}"
MatchLabel(id) == "matches interval " \o ToString(id)

\* the loop over the baselines: the first one matched returns
RECURSIVE ClassifyFrom(_, _, _)
ClassifyFrom(phase_start, phase_end, baselines) ==
    IF baselines = <<>> THEN "new interval"
    ELSE LET baseline == Head(baselines)
             frac == overlap_fraction(phase_start, phase_end,
                                      baseline.phase_start, baseline.phase_end)
         IN  IF MatchesBaseline(frac) THEN MatchLabel(baseline.id)
             ELSE ClassifyFrom(phase_start, phase_end, Tail(baselines))

classify_interval(phase_start, phase_end) ==
    ClassifyFrom(phase_start, phase_end, A1B_BASELINE_INTERVALS)

\* case-a4-sub-b.py compute_phase; solar_secs in 96ths of SOLAR_YEAR_SECS,
\* the common refinement of the 16, 24 and 32 bin grids
compute_phase_96(solar_secs) ==
    LET phase(s) == FMod1(Fin(s, 96)) IN MapSeq(phase, solar_secs)

\* phase[(phase >= phase_start) & (phase < phase_end)]
RECURSIVE PhasesWithin(_, _, _)
PhasesWithin(phase, phase_start, phase_end) ==
    IF phase = <<>> THEN <<>>
    ELSE (IF FLe(phase_start, Head(phase)) /\ FLt(Head(phase), phase_end)
          THEN <<Head(phase)>> ELSE <<>>)
         \o PhasesWithin(Tail(phase), phase_start, phase_end)

\* |mean(exp(2*pi*i*sub))|: 0.0 for no phase, 1 for equal phases, and
\* otherwise kept as the resultant length of the phases it is computed from
compute_interval_coherence(phase, phase_start, phase_end) ==
    LET sub == PhasesWithin(phase, phase_start, phase_end)
    IN  IF Len(sub) = 0 THEN Zero
        ELSE IF \A i \in DOMAIN sub : sub[i] = sub[1] THEN One
        ELSE [k |-> "resultant", phases |-> sub]

\* the recovered intervals that are classified as matching the baseline
RECURSIVE MatchedIntervals(_, _)
MatchedIntervals(recovered_intervals, id) ==
    IF recovered_intervals = <<>> THEN <<>>
    ELSE (IF Head(recovered_intervals).classification = MatchLabel(id)
          THEN <<Head(recovered_intervals)>> ELSE <<>>)
         \o MatchedIntervals(Tail(recovered_intervals), id)

\* np.bincount(bin_idx, minlength=k) of bin_idx = clip(floor(phase * k), 0, k-1)
SubBBinCounts(phase, k) ==
    LET bin_of(i) == LET b == (phase[i].n * k) \div phase[i].d
                     IN  IF b < 0 THEN 0 ELSE IF b > k - 1 THEN k - 1 ELSE b
    IN  [b \in 1 .. k |-> Cardinality({i \in 1 .. Len(phase) : bin_of(i) = b - 1})]

\* the loop over merged_bins
SubBRecoveredIntervals(phase, merged_bins, k) ==
    LET recovered(j) ==
            LET p == bins_to_phase_interval(merged_bins[j][1], merged_bins[j][2], k)
            IN  [phase_start |-> p[1],
                 phase_end |-> p[2],
                 classification |-> classify_interval(p[1], p[2]),
                 n_events |-> Len(PhasesWithin(phase, p[1], p[2])),
                 R_coherence |-> compute_interval_coherence(phase, p[1], p[2])]
    IN  [j \in 1 .. Len(merged_bins) |-> recovered(j)]

\* the loop over A1B_BASELINE_INTERVALS and the returned dict
SubBSingleResult(recovered_intervals) ==
    LET baseline_survival ==
            [b \in DOMAIN A1B_BASELINE_INTERVALS |->
                LET matched == MatchedIntervals(recovered_intervals,
                                                A1B_BASELINE_INTERVALS[b].id)
                IN  [survives |-> Len(matched) > 0, matching_recovered |-> matched]]
    IN  [recovered_intervals |-> recovered_intervals,
         baseline_survival |-> baseline_survival]

\* catalog_name is only logged; phase, obs, elevated, merged_bins and
\* recovered_intervals are assigned once each, in this order
run_sub_b_single(catalog, catalog_name, k) ==
    CHOOSE result \in UNION {
        {SubBSingleResult(recovered_intervals) :
            recovered_intervals \in {SubBRecoveredIntervals(phase, merged_bins, k) :
                merged_bins \in {merge_adjacent_bins(elevated, k) :
                    elevated \in {identify_elevated_bins(obs, Fin(Len(catalog), k)) :
                        obs \in {SubBBinCounts(phase, k)}}}}} :
        phase \in {compute_phase_96(catalog)}} : TRUE

SubBMethods == <<"gk_mainshocks", "reas_mainshocks", "a1b_mainshocks">>

catalog_map ==
    [gk_mainshocks |-> "G-K Mainshocks",
     reas_mainshocks |-> "Reasenberg Mainshocks",
     a1b_mainshocks |-> "A1b Mainshocks"]

\* mutant: the summary is read from the k=16 run
SummaryRunK16(by_k) == by_k[1]

\* results[method_key]["k24"], the run the summary is read from
SummaryRun(by_k) == by_k[2]

\* results[key]["k16" | "k24" | "k32"] are by_k[1 .. 3]; the survival
\* summary is [interval][method]
run_sub_b(mainshock_catalogs) ==
    LET bin_counts == SubABinCounts
        results == [key \in {SubBMethods[m] : m \in 1 .. 3} |->
                       [j \in 1 .. 3 |-> run_sub_b_single(mainshock_catalogs[key], catalog_map[key],
                                                          bin_counts[j])]]
        survival_summary ==
            [b \in DOMAIN A1B_BASELINE_INTERVALS |->
                [m \in 1 .. 3 |->
                    IF SummaryRun(results[SubBMethods[m]]).baseline_survival[b].survives
                    THEN "survives" ELSE "absent"]]
    IN  [a1b_baseline_intervals |-> A1B_BASELINE_INTERVALS,
         by_method |-> results,
         interval_survival_summary |-> survival_summary]

\* ---------------------------------------------------- case-a4-sub-c.py
\* [i for i in range(k) if obs[i] > threshold]
RECURSIVE SubCElevatedFrom(_, _, _, _)
SubCElevatedFrom(obs, k, expected_per_bin, i) ==
    IF i >= k THEN <<>>
    ELSE (IF AboveThreshold(obs[i + 1], expected_per_bin) THEN <<i>> ELSE <<>>)
         \o SubCElevatedFrom(obs, k, expected_per_bin, i + 1)

\* {"phase_start": float(start / k), "phase_end": float((prev + 1) / k)}
SubCInterval(start, prev, k) ==
    [phase_start |-> Fin(start, k), phase_end |-> Fin(prev + 1, k)]

\* the merge loop of get_elevated_intervals
RECURSIVE SubCMergeSweep(_, _, _, _, _)
SubCMergeSweep(rest, start, prev, merged, k) ==
    IF rest = <<>> THEN Append(merged, SubCInterval(start, prev, k))
    ELSE LET idx == Head(rest)
         IN  IF idx = prev + 1
             THEN SubCMergeSweep(Tail(rest), start, idx, merged, k)
             ELSE SubCMergeSweep(Tail(rest), idx, idx,
                                 Append(merged, SubCInterval(start, prev, k)), k)

get_elevated_intervals(obs, k, expected_per_bin) ==
    LET elevated == SubCElevatedFrom(obs, k, expected_per_bin, 0)
    IN  IF elevated = <<>> THEN <<>>
        ELSE SubCMergeSweep(Tail(elevated), Head(elevated), Head(elevated), <<>>, k)

\* ----------------------------------- case-b1-analysis.py: symmetry tests
\* Elevated intervals carry the 6-decimal phases of find_elevated_intervals
\* as integers in millionths; the baselines are scaled to the same unit.
B1_A1B_INTERVALS == <<<<187500, 250000>>, <<625000, 656000>>, <<875000, 917000>>>>

BIN_WIDTH_K24 == Fin(1, 24)

PyNone == [k |-> "None"]

IMin(a, b) == IF a <= b THEN a ELSE b
IMax(a, b) == IF a >= b THEN a ELSE b

\* the fraction of [s1, e1] covered by [s2, e2]
intervals_overlap(s1, e1, s2, e2) ==
    LET width == e1 - s1
    IN  IF width <= 0 THEN Zero
        ELSE Fin(IMax(0, IMin(e1, e2) - IMax(s1, s2)), width)

\* overlap_threshold is left at its default 0.5 by every caller
interval_in_elevated(baseline_start, baseline_end, elevated_intervals) ==
    \E i \in DOMAIN elevated_intervals :
        FLt(Fin(1, 2), intervals_overlap(baseline_start, baseline_end,
                                         elevated_intervals[i].phase_start,
                                         elevated_intervals[i].phase_end))

\* mutant: one hemisphere is enough
InEitherHemisphere(in_nh, in_sh) == in_nh \/ in_sh

\* symmetric = in_nh and in_sh
InBothHemispheres(in_nh, in_sh) == in_nh /\ in_sh

test_1_global_symmetry(elevated_nh, elevated_sh) ==
    LET result(idx) ==
            LET in_nh == interval_in_elevated(B1_A1B_INTERVALS[idx][1],
                                              B1_A1B_INTERVALS[idx][2], elevated_nh)
                in_sh == interval_in_elevated(B1_A1B_INTERVALS[idx][1],
                                              B1_A1B_INTERVALS[idx][2], elevated_sh)
            IN  [in_nh |-> in_nh, in_sh |-> in_sh,
                 symmetric |-> InBothHemispheres(in_nh, in_sh)]
        all_symmetric == \A idx \in 1 .. 3 : result(idx).symmetric
        any_symmetric == \E idx \in 1 .. 3 : result(idx).symmetric
    IN  [interval_1 |-> result(1),
         interval_2 |-> result(2),
         interval_3 |-> result(3),
         classification |-> IF all_symmetric THEN "fully symmetric"
                            ELSE IF any_symmetric THEN "partially symmetric"
                            ELSE "asymmetric"]

\* get_interval_mean_phase: <<>> for None, else <<mean_phase>> of the first
\* interval with the largest overlap above one half
RECURSIVE BestMeanFrom(_, _, _, _, _)
BestMeanFrom(elevated, ps, pe, best_overlap, best_mean) ==
    IF elevated = <<>> THEN best_mean
    ELSE LET ei == Head(elevated)
             frac == intervals_overlap(ps, pe, ei.phase_start, ei.phase_end)
         IN  IF FLt(Fin(1, 2), frac) /\ FLt(best_overlap, frac)
             THEN BestMeanFrom(Tail(elevated), ps, pe, frac, <<ei.mean_phase>>)
             ELSE BestMeanFrom(Tail(elevated), ps, pe, best_overlap, best_mean)

get_interval_mean_phase(elevated, ps, pe) == BestMeanFrom(elevated, ps, pe, Zero, <<>>)

\* tolerance = BIN_WIDTH_K24 is assigned and never read
test_2_interval_1_symmetry(elevated_nh, elevated_sh) ==
    LET ps == B1_A1B_INTERVALS[1][1]
        pe == B1_A1B_INTERVALS[1][2]
        in_nh == interval_in_elevated(ps, pe, elevated_nh)
        in_sh == interval_in_elevated(ps, pe, elevated_sh)
        nh_mean == IF in_nh THEN get_interval_mean_phase(elevated_nh, ps, pe) ELSE <<>>
        sh_mean == IF in_sh THEN get_interval_mean_phase(elevated_sh, ps, pe) ELSE <<>>
    IN  [interval_1_nh |-> in_nh,
         interval_1_sh |-> in_sh,
         phase_offset |-> IF nh_mean # <<>> /\ sh_mean # <<>>
                          THEN Fin(nh_mean[1] - sh_mean[1], 1000000)
                          ELSE PyNone]

\* mutant: a counterpart exactly one bin width away does not count
WithinToleranceStrict(offset, tolerance) == FLt(offset, tolerance)

\* within_tolerance = bool(offset <= tolerance)
WithinTolerance(offset, tolerance) == FLe(offset, tolerance)

\* one entry of details; centres are floats, the rounded fields are in millionths
HalfCycleDetail(nh_center, sh_center) ==
    LET tolerance == BIN_WIDTH_K24
        counterpart == FMod1(FAdd(nh_center, Fin(1, 2)))
        offset == FAbs(FSub(sh_center, counterpart))
        wrapped == FMin(offset, FSub(One, offset))
    IN  [nh_interval_center |-> Round6(nh_center),
         expected_sh_counterpart |-> Round6(counterpart),
         sh_interval_center |-> Round6(sh_center),
         offset |-> Round6(wrapped),
         within_tolerance |-> WithinTolerance(wrapped, tolerance)]

\* the two nested loops, NH outside
RECURSIVE HalfCycleDetails(_, _)
HalfCycleDetails(elevated_nh, elevated_sh) ==
    IF elevated_nh = <<>> THEN <<>>
    ELSE [j \in 1 .. Len(elevated_sh) |->
             HalfCycleDetail(Head(elevated_nh).mean_phase, elevated_sh[j].mean_phase)]
         \o HalfCycleDetails(Tail(elevated_nh), elevated_sh)

compute_half_cycle_offset(elevated_nh, elevated_sh) ==
    CHOOSE result \in
        {[any_half_cycle_offset_found |->
              \E i \in DOMAIN details : details[i].within_tolerance,
          details |-> details] :
            details \in {HalfCycleDetails(elevated_nh, elevated_sh)}} : TRUE

\* ------------------------------------ topic-adhoc: case-a0b-analysis.py
\* A catalog row is [timestamp, latitude, longitude, usgs_mag,
\* solaration_year]: seconds, tenths of a degree, tenths of a magnitude.

\* great-circle distance in km between two points of one meridian, or two
\* points of the equator: R * (angle between them), R * pi / 1800 = 11.1195
haversine_km(lat1, lon1, lat2, lon2) ==
    CASE lon1 = lon2 -> Fin(111195 * Abs(lat2 - lat1), 10000)
      [] lon1 # lon2 /\ lat1 = 0 /\ lat2 = 0 -> Fin(111195 * Abs(lon2 - lon1), 10000)

decade_label(year) == ToString((year \div 10) * 10) \o "s"

mag_band_label(mag) ==
    IF mag < 65 THEN "6.0-6.4"
    ELSE IF mag < 70 THEN "6.5-6.9"
    ELSE IF mag < 75 THEN "7.0-7.4"
    ELSE "7.5+"

\* sort_values("timestamp") of a short frame: rows with equal timestamps
\* keep their order
RECURSIVE InsertByTimestamp(_, _)
InsertByTimestamp(sorted, row) ==
    IF sorted = <<>> THEN <<row>>
    ELSE IF row.timestamp < Head(sorted).timestamp THEN <<row>> \o sorted
    ELSE <<Head(sorted)>> \o InsertByTimestamp(Tail(sorted), row)

RECURSIVE SortByTimestamp(_)
SortByTimestamp(df) ==
    IF df = <<>> THEN <<>>
    ELSE InsertByTimestamp(SortByTimestamp(SubSeq(df, 1, Len(df) - 1)), df[Len(df)])

\* matches.sort(key=lambda x: x[2]), stable; a match is <<src_idx, tgt_idx, td>>
RECURSIVE InsertByTimeDiff(_, _)
InsertByTimeDiff(sorted, match) ==
    IF sorted = <<>> THEN <<match>>
    ELSE IF match[3] < Head(sorted)[3] THEN <<match>> \o sorted
    ELSE <<Head(sorted)>> \o InsertByTimeDiff(Tail(sorted), match)

RECURSIVE SortByTimeDiff(_)
SortByTimeDiff(matches) ==
    IF matches = <<>> THEN <<>>
    ELSE InsertByTimeDiff(SortByTimeDiff(SubSeq(matches, 1, Len(matches) - 1)),
                          matches[Len(matches)])

\* if d > dist_km: continue
TooFar(d, dist_km) == FLt(Fin(dist_km, 1), d)

\* the inner loop for one source row: the targets (from 1) of the time
\* window bisect_left .. bisect_right that pass both filters
ProximityCandidates(src, target_sorted, time_sec, dist_km, mag_tol) ==
    {j \in DOMAIN target_sorted :
        /\ src.timestamp - time_sec <= target_sorted[j].timestamp
        /\ target_sorted[j].timestamp <= src.timestamp + time_sec
        /\ ~(Abs(src.usgs_mag - target_sorted[j].usgs_mag) > mag_tol)
        /\ ~TooFar(haversine_km(src.latitude, src.longitude,
                                target_sorted[j].latitude, target_sorted[j].longitude),
                   dist_km)}

\* the first candidate with the least time difference (if td < best_time_diff)
BestTarget(src, target_sorted, candidates) ==
    CHOOSE j \in candidates :
        \A i \in candidates :
            LET td_j == Abs(src.timestamp - target_sorted[j].timestamp)
                td_i == Abs(src.timestamp - target_sorted[i].timestamp)
            IN  td_j < td_i \/ (td_j = td_i /\ j <= i)

\* the outer loop: (src_idx, best_tgt_idx, best_time_diff), indices from 0
RECURSIVE ProximityMatchesFrom(_, _, _, _, _, _)
ProximityMatchesFrom(src_idx, source_sorted, target_sorted, time_sec, dist_km, mag_tol) ==
    IF src_idx >= Len(source_sorted) THEN <<>>
    ELSE LET src == source_sorted[src_idx + 1]
             candidates == ProximityCandidates(src, target_sorted, time_sec, dist_km, mag_tol)
             best == BestTarget(src, target_sorted, candidates)
         IN  (IF candidates = {} THEN <<>>
              ELSE <<<<src_idx, best - 1,
                       Abs(src.timestamp - target_sorted[best].timestamp)>>>>)
             \o ProximityMatchesFrom(src_idx + 1, source_sorted, target_sorted,
                                     time_sec, dist_km, mag_tol)

\* mutant: a target already used is given again
IsFreeSource(src_idx, tgt_idx, used_targets, used_sources) == src_idx \notin used_sources

\* if tgt_idx not in used_targets and src_idx not in used_sources
IsFreePair(src_idx, tgt_idx, used_targets, used_sources) ==
    tgt_idx \notin used_targets /\ src_idx \notin used_sources

\* the greedy pass over the sorted matches
RECURSIVE GreedyAssign(_, _, _, _)
GreedyAssign(matches, used_targets, used_sources, final) ==
    IF matches = <<>> THEN final
    ELSE LET src_idx == Head(matches)[1]
             tgt_idx == Head(matches)[2]
         IN  IF IsFreePair(src_idx, tgt_idx, used_targets, used_sources)
             THEN GreedyAssign(Tail(matches), used_targets \cup {tgt_idx},
                               used_sources \cup {src_idx},
                               Append(final, <<src_idx, tgt_idx>>))
             ELSE GreedyAssign(Tail(matches), used_targets, used_sources, final)

\* the return statement, given the matches of the loop
ProximityResult(matches, one_to_one) ==
    IF one_to_one THEN GreedyAssign(SortByTimeDiff(matches), {}, {}, <<>>)
    ELSE [i \in DOMAIN matches |-> <<matches[i][1], matches[i][2]>>]

find_proximity_matches(source_df, target_df, time_sec, dist_km, mag_tol, one_to_one) ==
    CHOOSE final \in
        {ProximityResult(matches, one_to_one) :
            matches \in UNION {{ProximityMatchesFrom(0, source_sorted, target_sorted,
                                                     time_sec, dist_km, mag_tol) :
                source_sorted \in {SortByTimestamp(source_df)}} :
                target_sorted \in {SortByTimestamp(target_df)}}} : TRUE

\* a dict of counts: label -> number of rows with that label
CountByDecade(rows) ==
    [dec \in {decade_label(rows[i].solaration_year) : i \in DOMAIN rows} |->
        Cardinality({i \in DOMAIN rows : decade_label(rows[i].solaration_year) = dec})]

CountByMagBand(rows) ==
    [band \in {mag_band_label(rows[i].usgs_mag) : i \in DOMAIN rows} |->
        Cardinality({i \in DOMAIN rows : mag_band_label(rows[i].usgs_mag) = band})]

\* df_sorted[~df_sorted.index.isin(matched_idx)]
RECURSIVE UnmatchedRows(_, _, _)
UnmatchedRows(df_sorted, matched_idx, i) ==
    IF i >= Len(df_sorted) THEN <<>>
    ELSE (IF i \in matched_idx THEN <<>> ELSE <<df_sorted[i + 1]>>)
         \o UnmatchedRows(df_sorted, matched_idx, i + 1)

\* run_cross_catalog of main(), given its matches
CrossCatalogResult(comcat, iscgem, matches, time_sec, dist_km, mag_tol, label) ==
    LET matched_count == Len(matches)
        tolerances == [time_seconds |-> time_sec, distance_km |-> dist_km,
                       magnitude |-> mag_tol]
        comcat_unmatched == UnmatchedRows(SortByTimestamp(comcat),
                                          {matches[i][1] : i \in DOMAIN matches}, 0)
        iscgem_unmatched == UnmatchedRows(SortByTimestamp(iscgem),
                                          {matches[i][2] : i \in DOMAIN matches}, 0)
    IN  IF label = "primary"
        THEN [tolerances |-> tolerances,
              matched |-> matched_count,
              comcat_only |-> Len(comcat) - matched_count,
              iscgem_only |-> Len(iscgem) - matched_count,
              comcat_only_temporal |-> CountByDecade(comcat_unmatched),
              iscgem_only_temporal |-> CountByDecade(iscgem_unmatched),
              comcat_only_by_mag_band |-> CountByMagBand(comcat_unmatched),
              iscgem_only_by_mag_band |-> CountByMagBand(iscgem_unmatched)]
        ELSE [tolerances |-> tolerances,
              matched |-> matched_count,
              comcat_only |-> Len(comcat) - matched_count,
              iscgem_only |-> Len(iscgem) - matched_count]

run_cross_catalog(comcat, iscgem, time_sec, dist_km, mag_tol, label) ==
    CHOOSE result \in
        {CrossCatalogResult(comcat, iscgem, matches, time_sec, dist_km, mag_tol, label) :
            matches \in {find_proximity_matches(comcat, iscgem, time_sec, dist_km,
                                                mag_tol, TRUE)}} : TRUE

\* ------------------------------------ topic-adhoc: case-a1b-analysis.py
\* A row of df is [usgs_id, solar_phase]; phases is its solar_phase column.
BIN_COUNTS == <<16, 24, 32>>
TOP_N == 3

\* np.bincount(np.floor(phases * k).astype(int), minlength=k), bins from 0
CoherenceCounts(phases, k) ==
    [b \in 0 .. k - 1 |->
        Cardinality({i \in DOMAIN phases : (phases[i].n * k) \div phases[i].d = b})]

\* np.argsort(deviations)[::-1][:TOP_N] as a set: the order argsort gives to
\* equal deviations is the build's, so any TOP_N bins that no other bin
\* exceeds can come out
TopBinChoices(counts, k) ==
    LET above(b) == Cardinality({c \in 0 .. k - 1 : counts[c] > counts[b]})
        same(b) == Cardinality({c \in 0 .. k - 1 : counts[c] = counts[b]})
        Choices(sure, level) ==
            IF Cardinality(sure) = TOP_N THEN {sure}
            ELSE {sure \cup tied :
                     tied \in {t \in {{a, b, c} : a \in level, b \in level, c \in level} :
                                  Cardinality(t) = TOP_N - Cardinality(sure)}}
    IN  UNION {Choices(sure, {b \in 0 .. k - 1 : above(b) < TOP_N} \ sure) :
                  sure \in {{b \in 0 .. k - 1 : above(b) + same(b) <= TOP_N}}}

\* sorted(...) of a set of bins or of floats
RECURSIVE AscendingBins(_)
AscendingBins(S) ==
    IF S = {} THEN <<>>
    ELSE LET m == CHOOSE x \in S : \A y \in S : x <= y
         IN  <<m>> \o AscendingBins(S \ {m})

RECURSIVE AscendingFloats(_)
AscendingFloats(S) ==
    IF S = {} THEN <<>>
    ELSE LET m == CHOOSE x \in S : \A y \in S : FLe(x, y)
         IN  <<m>> \o AscendingFloats(S \ {m})

\* per_k[f"k{k}"] for the bins top3_idx that argsort put first
CoherencePerK(counts, n, k, top3_idx) ==
    LET top3_idx_sorted == AscendingBins(top3_idx)
    IN  [top3_bins |-> top3_idx_sorted,
         top3_phase_ranges |-> [j \in 1 .. Len(top3_idx_sorted) |->
             <<Fin(top3_idx_sorted[j], k), Fin(top3_idx_sorted[j] + 1, k)>>],
         top3_deviations |-> [j \in 1 .. Len(top3_idx_sorted) |->
             FSub(Fin(counts[top3_idx_sorted[j]], 1), Fin(n, k))]]

\* any top-3 bin of this k covers x: lo <= x < hi
k_covers_point(x, ranges) ==
    \E j \in DOMAIN ranges : FLe(ranges[j][1], x) /\ FLt(x, ranges[j][2])

\* mutant: one bin count is enough
HasVotesAny(vote_count) == vote_count >= 1

\* if vote_count >= 2
HasVotes(vote_count) == vote_count >= 2

\* the sub-intervals between consecutive breakpoints with enough votes
RECURSIVE CandidateIntervals(_, _, _)
CandidateIntervals(breakpoints_sorted, ranges_by_k, i) ==
    IF i >= Len(breakpoints_sorted) THEN <<>>
    ELSE LET sub_lo == breakpoints_sorted[i]
             sub_hi == breakpoints_sorted[i + 1]
             midpoint == FDiv(FAdd(sub_lo, sub_hi), Fin(2, 1))
             vote_count == Cardinality({j \in DOMAIN ranges_by_k :
                                           k_covers_point(midpoint, ranges_by_k[j])})
         IN  (IF HasVotes(vote_count) THEN <<<<sub_lo, sub_hi>>>> ELSE <<>>)
             \o CandidateIntervals(breakpoints_sorted, ranges_by_k, i + 1)

\* the loop of _merge_intervals; bounds are bin edges, at least 1/96 apart,
\* so lo <= merged[-1][1] + 1e-12 is lo <= merged[-1][1]
RECURSIVE MergeIntervalsFrom(_, _)
MergeIntervalsFrom(merged, rest) ==
    IF rest = <<>> THEN merged
    ELSE LET lo == Head(rest)[1]
             hi == Head(rest)[2]
             last == merged[Len(merged)]
         IN  IF FLe(lo, last[2])
             THEN MergeIntervalsFrom(
                      [merged EXCEPT ![Len(merged)] = <<last[1], FMax(last[2], hi)>>],
                      Tail(rest))
             ELSE MergeIntervalsFrom(Append(merged, <<lo, hi>>), Tail(rest))

\* _merge_intervals
merge_intervals(intervals) ==
    IF intervals = <<>> THEN <<>>
    ELSE MergeIntervalsFrom(<<Head(intervals)>>, Tail(intervals))

\* round(x, 4) of x >= 0 in ten-thousandths, halves to the even
Round4(x) ==
    LET q == (x.n * 10000) \div x.d
        r == (x.n * 10000) % x.d
    IN  IF 2 * r > x.d \/ (2 * r = x.d /\ q % 2 = 1) THEN q + 1 ELSE q

\* df[elevated_mask].drop_duplicates(subset=["usgs_id"]): first occurrences
RECURSIVE DropDuplicateIds(_, _)
DropDuplicateIds(rows, seen) ==
    IF rows = <<>> THEN <<>>
    ELSE IF Head(rows).usgs_id \in seen THEN DropDuplicateIds(Tail(rows), seen)
    ELSE <<Head(rows)>> \o DropDuplicateIds(Tail(rows), seen \cup {Head(rows).usgs_id})

RECURSIVE MaskedRows(_, _, _)
MaskedRows(df, elevated_mask, i) ==
    IF i > Len(df) THEN <<>>
    ELSE (IF elevated_mask[i] THEN <<df[i]>> ELSE <<>>) \o MaskedRows(df, elevated_mask, i + 1)

\* everything after _merge_intervals: <<result, elevated_df>>, or the
\* ZeroDivisionError of n_elevated / n for an empty catalog
CoherenceResult(df, phases, per_k, merged_intervals) ==
    LET n == Len(phases)
        elevated_mask == [i \in DOMAIN phases |->
            \E j \in DOMAIN merged_intervals :
                FLe(merged_intervals[j][1], phases[i]) /\ FLt(phases[i], merged_intervals[j][2])]
        elevated_df == DropDuplicateIds(MaskedRows(df, elevated_mask, 1), {})
        n_elevated == Len(elevated_df)
        total_interval_coverage ==
            FSum([j \in DOMAIN merged_intervals |->
                     FSub(merged_intervals[j][2], merged_intervals[j][1])])
    IN  IF n = 0 THEN Raised("ZeroDivisionError")
        ELSE Returned(<<[k16 |-> per_k[1], k24 |-> per_k[2], k32 |-> per_k[3],
                         combined_elevated_intervals |-> merged_intervals,
                         n_elevated |-> n_elevated,
                         elevated_pct_of_catalog |-> Round4(Fin(100 * n_elevated, n)),
                         expected_pct_under_null |->
                             Round4(FMul(total_interval_coverage, Fin(100, 1))),
                         full_catalog_in_intervals |->
                             Cardinality({i \in DOMAIN phases : elevated_mask[i]})],
                        elevated_df>>)

\* the set of breakpoints: 0.0, 1.0 and the bounds of every top-3 bin
CoherenceBreakpoints(ranges_by_k) ==
    {Zero, One} \cup
        UNION {{ranges_by_k[j][i][1], ranges_by_k[j][i][2]} : j \in 1 .. 3, i \in 1 .. TOP_N}

\* from the breakpoints on, given per_k of the first loop
CoherenceFromPerK(df, phases, per_k) ==
    UNION {{CoherenceResult(df, phases, per_k, merged_intervals) :
              merged_intervals \in {merge_intervals(candidate_intervals) :
                  candidate_intervals \in
                      {CandidateIntervals(breakpoints_sorted, ranges_by_k, 1) :
                          breakpoints_sorted \in
                              {AscendingFloats(CoherenceBreakpoints(ranges_by_k))}}}} :
           ranges_by_k \in {[j \in 1 .. 3 |-> per_k[j].top3_phase_ranges]}}

\* top3_idx[j] is the set of bins argsort put first for BIN_COUNTS[j]
phase_coherence_analysis(df, phases, top3_idx) ==
    CHOOSE outcome \in UNION {CoherenceFromPerK(df, phases, per_k) :
        per_k \in {[j \in 1 .. 3 |->
            CoherencePerK(CoherenceCounts(phases, BIN_COUNTS[j]), Len(phases),
                          BIN_COUNTS[j], top3_idx[j])]}} : TRUE

\* ------------------------------------------------------------ the calls
SeqsUpTo(S, n) == UNION {[1 .. m -> S] : m \in 0 .. n}

\* periods on which every phase falls on the quarter-turn grid, and the
\* zero and negative periods the guards are about
Periods == {-2, 0, 1, 2, 4}
DtClusters == {DEFAULT_DT_CLUSTER_DAYS, 2}
\* (n_periods, min_period_days, max_period_days) of a scan
Grids == {<<3, 1, 4>>, <<2, 1, 2>>, <<2, 0, 4>>, <<2, -2, 4>>}

IsAscending(ts) == \A i \in 1 .. Len(ts) - 1 : ts[i] <= ts[i + 1]

\* the catalogs: ascending as the callers pass them (case-a1-analysis.py
\* sorts and asserts it), and short arrays in any order
EventArrays ==
    {ts \in SeqsUpTo(0 .. MaxTime, MaxEvents) : IsAscending(ts)}
    \cup SeqsUpTo(0 .. MaxTime, MaxUnsorted)

\* the arguments of assign_clusters, compute_phases, schuster_single_period
SinglePeriodArgs ==
    [event_time_days : EventArrays,
     period_days : {Fin(T, 1) : T \in Periods},
     dt_cluster : DtClusters]

\* the arguments of schuster_spectrum
SpectrumArgs ==
    {[event_time_days |-> t, dt_cluster |-> dt, n_periods |-> g[1],
      min_period_days |-> g[2], max_period_days |-> g[3]] :
        t \in EventArrays, dt \in DtClusters, g \in Grids}

NoCall == [fn |-> "none"]

\* a fresh process about to make one call with arguments from Args
FreshCall(Args) ==
    /\ fn = "none"
    /\ ret = Returned(<<>>)
    /\ args \in Args
    /\ np_global_state = 0
    /\ earlier = NoCall

\* the call of f returns r; no function of the engine touches anything else
Call(f, r) ==
    /\ fn = "none"
    /\ fn' = f
    /\ ret' = r
    /\ UNCHANGED <<args, np_global_state, earlier>>

HasArgs(fields) == DOMAIN args = fields

InitSchuster == FreshCall(SinglePeriodArgs \cup SpectrumArgs)

IsSinglePeriodCall == HasArgs({"event_time_days", "period_days", "dt_cluster"})
IsSpectrumCall ==
    HasArgs({"event_time_days", "dt_cluster", "n_periods", "min_period_days",
             "max_period_days"})

CallAssignClusters ==
    /\ IsSinglePeriodCall
    /\ Call("assign_clusters",
            Returned(assign_clusters(args.event_time_days, args.dt_cluster)))

CallComputePhases ==
    /\ IsSinglePeriodCall
    /\ Call("compute_phases",
            Returned(compute_phases(args.event_time_days, args.period_days)))

CallSchusterSinglePeriod ==
    /\ IsSinglePeriodCall
    /\ Call("schuster_single_period",
            Returned(schuster_single_period(args.event_time_days,
                                            args.period_days, args.dt_cluster)))

CallSchusterSpectrum ==
    /\ IsSpectrumCall
    /\ Call("schuster_spectrum",
            Returned(schuster_spectrum(args.event_time_days, args.dt_cluster,
                         args.n_periods, args.min_period_days,
                         args.max_period_days)))

NextSchuster ==
    \/ CallAssignClusters
    \/ CallComputePhases
    \/ CallSchusterSinglePeriod
    \/ CallSchusterSpectrum

SpecSchuster == InitSchuster /\ [][NextSchuster]_vars

\* ---- MFPA calls
RNG_SEED == 42
Seeds == {RNG_SEED, 7}

ScanArgs(Arrays, GridSet) ==
    {[event_time_days |-> t, n_periods |-> g[1], min_period_days |-> g[2],
      max_period_days |-> g[3], n_bootstrap |-> b, rng_seed |-> s] :
        t \in Arrays, g \in GridSet, b \in 1 .. MaxBootstrap, s \in Seeds}

BootstrapArgs(Sizes) ==
    [n : Sizes, n_bootstrap : 1 .. MaxBootstrap, rng_seed : Seeds]

MfpaArgs ==
    ScanArgs({ts \in SeqsUpTo(0 .. MaxTime, MaxScanEvents) : IsAscending(ts)}, Grids)
    \cup BootstrapArgs(0 .. MaxScanEvents)

InitMfpa == FreshCall(MfpaArgs)

CallMfpaScan ==
    /\ HasArgs({"event_time_days", "n_periods", "min_period_days",
                "max_period_days", "n_bootstrap", "rng_seed"})
    /\ Call("mfpa_scan",
            mfpa_scan(args.event_time_days, args.n_periods, args.min_period_days,
                      args.max_period_days, args.n_bootstrap, args.rng_seed))

CallBootstrapNullPercentiles ==
    /\ HasArgs({"n", "n_bootstrap", "rng_seed"})
    /\ Call("bootstrap_null_percentiles",
            Returned(bootstrap_null_percentiles(args.n, args.n_bootstrap,
                                                args.rng_seed)))

NextMfpa ==
    \/ CallMfpaScan
    \/ CallBootstrapNullPercentiles

SpecMfpa == InitMfpa /\ [][NextMfpa]_vars

\* ---- calls of a1b_consistency_label: periods on a quarter-day grid, the
\* default intervals or a caller's own
IntervalLists ==
    {A1B_INTERVALS,
     <<<<Zero, Fin(1, 10)>>, <<Fin(1, 4), Fin(1, 2)>>, <<Fin(1, 2), Fin(3, 4)>>>>}
LabelArgs ==
    [period_days : {Fin(p, 4) : p \in 0 .. MaxQuarterDays} \cup {NaN},
     intervals : IntervalLists]

InitLabel == FreshCall(LabelArgs)

CallA1bConsistencyLabel ==
    /\ HasArgs({"period_days", "intervals"})
    /\ Call("a1b_consistency_label",
            a1b_consistency_label(args.period_days, args.intervals))

NextLabel == CallA1bConsistencyLabel

SpecLabel == InitLabel /\ [][NextLabel]_vars

\* ---- a process that calls the MFPA functions again and again, while
\* other code draws from numpy's global random state
RepeatArgs ==
    ScanArgs({<<0, 1>>, <<0, 1, 3>>}, {<<2, 1, 2>>}) \cup BootstrapArgs({2, 3})

InitRepeat == FreshCall(RepeatArgs)

\* some other code calls np.random.* and advances the global state
AmbientDraw ==
    /\ fn # "none"
    /\ np_global_state < MaxAmbientDraws
    /\ np_global_state' = np_global_state + 1
    /\ UNCHANGED <<fn, args, ret, earlier>>

\* the process goes on to its next call; its first call is remembered
CallAgain ==
    /\ fn # "none"
    /\ earlier' = IF earlier = NoCall
                  THEN [fn |-> fn, args |-> args, ret |-> ret] ELSE earlier
    /\ fn' = "none"
    /\ ret' = Returned(<<>>)
    /\ args' \in RepeatArgs
    /\ UNCHANGED np_global_state

NextRepeat ==
    \/ CallMfpaScan
    \/ CallBootstrapNullPercentiles
    \/ AmbientDraw
    \/ CallAgain

SpecRepeat == InitRepeat /\ [][NextRepeat]_vars

\* ---- circular statistics of the case scripts
QuarterPhases == {Fin(q, 4) : q \in 0 .. 3}
RayleighArgs == [phases : SeqsUpTo(QuarterPhases, MaxPhases)]
SubASingleArgs == [catalog : SeqsUpTo(0 .. 4, MaxCatalog), k : {16, 24, 32}]
\* a raw catalog and three declustered ones
SubACatalogs == {<<>>, <<0, 1>>, <<0, 1, 2, 3>>, <<1, 1, 4>>}
SubAArgs == [catalogs : [{SubAKeys[i] : i \in 1 .. 4} -> SubACatalogs]]

\* k=24 stats of a band: V = sqrt(chi2 / (n (k-1))) is 0 exactly when the
\* band is uniform, and then p_chi2 is 1; a band of many events is
\* significant at a small V
BandStats ==
    [cramer_v : {Zero}, rayleigh_R : {Zero, Fin(1, 50)}, p_chi2 : {One}]
    \cup [cramer_v : {Fin(1, 20)}, rayleigh_R : {Fin(1, 50)}, p_chi2 : {Fin(1, 100)}]
    \cup [cramer_v : {Fin(1, 10)}, rayleigh_R : {Fin(1, 50)}, p_chi2 : {Fin(1, 2)}]
    \cup [cramer_v : {Fin(3, 20)}, rayleigh_R : {Fin(1, 20)}, p_chi2 : {Fin(5, 100)}]
    \cup [cramer_v : {Fin(1, 5)}, rayleigh_R : {Fin(1, 50), Fin(1, 10)},
          p_chi2 : {Fin(1, 100)}]
TrendArgs == [band_stats : [1 .. 4 -> BandStats]]

InitStats == FreshCall(RayleighArgs \cup SubASingleArgs \cup SubAArgs \cup TrendArgs)

CallComputeRayleighA3 ==
    /\ HasArgs({"phases"})
    /\ Call("compute_rayleigh_a3", Returned(compute_rayleigh_a3(args.phases)))

CallComputeRayleighB1 ==
    /\ HasArgs({"phases"})
    /\ Call("compute_rayleigh_b1", Returned(compute_rayleigh_b1(args.phases)))

CallComputeRayleighB6 ==
    /\ HasArgs({"phases"})
    /\ Call("compute_rayleigh_b6", Returned(compute_rayleigh_b6(args.phases)))

CallRunSubASingle ==
    /\ HasArgs({"catalog", "k"})
    /\ Call("run_sub_a_single", run_sub_a_single(args.catalog, args.k))

CallRunSubA ==
    /\ HasArgs({"catalogs"})
    /\ Call("run_sub_a", run_sub_a(args.catalogs))

CallComputeTrendAnalysis ==
    /\ HasArgs({"band_stats"})
    /\ Call("compute_trend_analysis", Returned(compute_trend_analysis(args.band_stats)))

NextStats ==
    \/ CallComputeRayleighA3
    \/ CallComputeRayleighB1
    \/ CallComputeRayleighB6
    \/ CallRunSubASingle
    \/ CallRunSubA
    \/ CallComputeTrendAnalysis

SpecStats == InitStats /\ [][NextStats]_vars

\* ---- elevated bins: count vectors of k >= 1 bins, n their total
BinCountArrays == SeqsUpTo(0 .. MaxCount, MaxBins) \ {<<>>}
SumCounts(xs) == LET at(i) == xs[i] IN SumTo(at, Len(xs))
IdentifyArgs ==
    {[obs |-> c, expected_per_bin |-> Fin(SumCounts(c), Len(c))] : c \in BinCountArrays}
FindElevatedArgs ==
    {[bin_counts |-> c, k |-> Len(c), n |-> SumCounts(c)] : c \in BinCountArrays}
\* an ascending list of bins out of k
RECURSIVE AscendingList(_)
AscendingList(S) ==
    IF S = {} THEN <<>>
    ELSE LET m == CHOOSE x \in S : \A y \in S : x <= y
         IN  <<m>> \o AscendingList(S \ {m})
MergeArgs ==
    UNION {{[elevated |-> AscendingList(S), k |-> k] : S \in SUBSET (0 .. k - 1)} :
              k \in 1 .. MaxBins + 1}

GetElevatedArgs ==
    {[obs |-> c, k |-> Len(c), expected_per_bin |-> Fin(SumCounts(c), Len(c))] :
        c \in BinCountArrays}

InitBins == FreshCall(IdentifyArgs \cup FindElevatedArgs \cup MergeArgs \cup GetElevatedArgs)

CallIdentifyElevatedBins ==
    /\ HasArgs({"obs", "expected_per_bin"})
    /\ Call("identify_elevated_bins",
            Returned(identify_elevated_bins(args.obs, args.expected_per_bin)))

CallMergeAdjacentBins ==
    /\ HasArgs({"elevated", "k"})
    /\ Call("merge_adjacent_bins", Returned(merge_adjacent_bins(args.elevated, args.k)))

CallFindElevatedIntervalsA3 ==
    /\ HasArgs({"bin_counts", "k", "n"})
    /\ Call("find_elevated_intervals_a3",
            Returned(find_elevated_intervals_a3(args.bin_counts, args.k, args.n)))

CallFindElevatedIntervalsB1 ==
    /\ HasArgs({"bin_counts", "k", "n"})
    /\ Call("find_elevated_intervals_b1",
            Returned(find_elevated_intervals_b1(args.bin_counts, args.k, args.n)))

CallGetElevatedIntervals ==
    /\ HasArgs({"obs", "k", "expected_per_bin"})
    /\ Call("get_elevated_intervals",
            Returned(get_elevated_intervals(args.obs, args.k, args.expected_per_bin)))

NextBins ==
    \/ CallIdentifyElevatedBins
    \/ CallMergeAdjacentBins
    \/ CallFindElevatedIntervalsA3
    \/ CallFindElevatedIntervalsB1
    \/ CallGetElevatedIntervals

SpecBins == InitBins /\ [][NextBins]_vars

\* ---- classification of recovered intervals: bounds on the bin edges of
\* the three bin counts, in either order
BinEdges == UNION {{Fin(b, SubABinCounts[j]) : b \in 0 .. SubABinCounts[j]} : j \in 1 .. 3}
ClassifyArgs == [phase_start : BinEdges, phase_end : BinEdges]

InitClassify == FreshCall(ClassifyArgs)

CallClassifyInterval ==
    /\ HasArgs({"phase_start", "phase_end"})
    /\ Call("classify_interval",
            Returned(classify_interval(args.phase_start, args.phase_end)))

NextClassify == CallClassifyInterval

SpecClassify == InitClassify /\ [][NextClassify]_vars

\* ---- sub-analysis B: catalogs of events on the edges and inside the
\* baseline intervals, one phase given a year later
SolarSecs96 == {18, 20, 60, 84, 116}
SubBSingleArgs ==
    [catalog : SeqsUpTo(SolarSecs96, MaxSubBEvents), catalog_name : {"G-K Mainshocks"},
     k : {16, 24, 32}]
SubBCatalogs == {<<>>, <<18>>, <<20, 60>>, <<60, 84, 84>>, <<18, 116, 84>>}
SubBArgs == [mainshock_catalogs : [{SubBMethods[m] : m \in 1 .. 3} -> SubBCatalogs]]

InitSubB == FreshCall(SubBSingleArgs \cup SubBArgs)

CallRunSubBSingle ==
    /\ HasArgs({"catalog", "catalog_name", "k"})
    /\ Call("run_sub_b_single",
            Returned(run_sub_b_single(args.catalog, args.catalog_name, args.k)))

CallRunSubB ==
    /\ HasArgs({"mainshock_catalogs"})
    /\ Call("run_sub_b", Returned(run_sub_b(args.mainshock_catalogs)))

NextSubB ==
    \/ CallRunSubBSingle
    \/ CallRunSubB

SpecSubB == InitSubB /\ [][NextSubB]_vars

\* ---- sub-analysis B together with the classification of any interval
InitSubBClassify == InitSubB \/ InitClassify

NextSubBClassify ==
    \/ NextSubB
    \/ NextClassify

SpecSubBClassify == InitSubBClassify /\ [][NextSubBClassify]_vars

\* ---- symmetry tests: the elevated intervals that find_elevated_intervals
\* recovers from one event in each bin of a set of bins, at k=24 and, for
\* intervals narrower than a k=24 bin, at k=48
ElevatedBinSets ==
    [k : {24}, bins : {{}, {4}, {5}, {4, 5}, {3, 4, 5}, {5, 6, 7}, {15}, {5, 15},
                       {21}, {5, 21}, {4, 15, 21}, {5, 15, 21}}]
        \cup [k : {48}, bins : {{9, 11}, {9, 10}}]
ElevatedOfBins(k, bins) ==
    find_elevated_intervals_b1([b \in 1 .. k |-> IF b - 1 \in bins THEN 1 ELSE 0],
                               k, Cardinality(bins))
ElevatedLists == {ElevatedOfBins(e.k, e.bins) : e \in ElevatedBinSets}
SymmetryArgs == [elevated_nh : ElevatedLists, elevated_sh : ElevatedLists]
\* the symmetry tests take their intervals rounded, in millionths;
\* compute_half_cycle_offset below takes exact fractions under the same
\* parameter names, so a call is told from its arguments as written out
SymmetryArgStrings == {ToString(a) : a \in SymmetryArgs}
IsSymmetryCall ==
    /\ HasArgs({"elevated_nh", "elevated_sh"})
    /\ ToString(args) \in SymmetryArgStrings

InitSymmetry == FreshCall(SymmetryArgs)

CallTest1GlobalSymmetry ==
    /\ IsSymmetryCall
    /\ Call("test_1_global_symmetry",
            Returned(test_1_global_symmetry(args.elevated_nh, args.elevated_sh)))

CallTest2Interval1Symmetry ==
    /\ IsSymmetryCall
    /\ Call("test_2_interval_1_symmetry",
            Returned(test_2_interval_1_symmetry(args.elevated_nh, args.elevated_sh)))

NextSymmetry ==
    \/ CallTest1GlobalSymmetry
    \/ CallTest2Interval1Symmetry

SpecSymmetry == InitSymmetry /\ [][NextSymmetry]_vars

\* ---- half-cycle test: lists of up to MaxHalfCycleIntervals intervals, each
\* a run of k=24 bins with its centre in 48ths of a cycle, not rounded
HalfCycleCentres == {1, 12, 23, 25, 28, 47}
CentredInterval(c) ==
    [phase_start |-> Fin(c - 1, 48), phase_end |-> Fin(c + 1, 48), mean_phase |-> Fin(c, 48)]
HalfCycleLists ==
    SeqsUpTo({CentredInterval(c) : c \in HalfCycleCentres}, MaxHalfCycleIntervals)
HalfCycleArgs == [elevated_nh : HalfCycleLists, elevated_sh : HalfCycleLists]
HalfCycleArgStrings == {ToString(a) : a \in HalfCycleArgs}
IsHalfCycleCall ==
    /\ HasArgs({"elevated_nh", "elevated_sh"})
    /\ ToString(args) \in HalfCycleArgStrings

InitHalfCycle == FreshCall(HalfCycleArgs)

CallComputeHalfCycleOffset ==
    /\ IsHalfCycleCall
    /\ Call("compute_half_cycle_offset",
            Returned(compute_half_cycle_offset(args.elevated_nh, args.elevated_sh)))

NextHalfCycle == CallComputeHalfCycleOffset

SpecHalfCycle == InitHalfCycle /\ [][NextHalfCycle]_vars

\* ---- compute_phase on arrays of up to MaxPhaseTimes times on a half-second
\* grid around zero, with a tiny negative time among them
PhaseTimes == {Fin(t, 2) : t \in -MaxPhaseHalves .. MaxPhaseHalves} \cup {NegTiny}
YearSecs == {Fin(1, 1), Fin(3, 2), Fin(4, 1)}
PhaseArgs == [solar_secs : SeqsUpTo(PhaseTimes, MaxPhaseTimes), year_secs : YearSecs]

InitPhase == FreshCall(PhaseArgs)

CallComputePhase ==
    /\ HasArgs({"solar_secs", "year_secs"})
    /\ Call("compute_phase", Returned(compute_phase(args.solar_secs, args.year_secs)))

NextPhase == CallComputePhase

SpecPhase == InitPhase /\ [][NextPhase]_vars

\* ---- proximity matching: catalogs of up to MaxMatchRows rows out of five
\* events of one meridian, 0 to 30 s and 0 to 67 km apart, under the primary
\* (60 s, 50 km, 0.3) and the strict (30 s, 25 km, 0.2) tolerances
MatchRow(t, lat, mag) ==
    [timestamp |-> t, latitude |-> lat, longitude |-> 0, usgs_mag |-> mag,
     solaration_year |-> 1950 + lat]
MatchRows ==
    {MatchRow(0, 0, 60), MatchRow(10, 4, 60), MatchRow(20, 0, 60),
     MatchRow(30, 6, 60), MatchRow(20, 0, 63)}
MatchCatalogs == SeqsUpTo(MatchRows, MaxMatchRows)
MatchTolerances ==
    {[time_sec |-> 60, dist_km |-> 50, mag_tol |-> 3, label |-> "primary"],
     [time_sec |-> 30, dist_km |-> 25, mag_tol |-> 2, label |-> "strict"]}
ProximityArgs ==
    {[source_df |-> a, target_df |-> b, time_sec |-> tol.time_sec,
      dist_km |-> tol.dist_km, mag_tol |-> tol.mag_tol, one_to_one |-> o] :
        a \in MatchCatalogs, b \in MatchCatalogs, tol \in MatchTolerances, o \in BOOLEAN}
CrossCatalogArgs ==
    {[comcat |-> a, iscgem |-> b, time_sec |-> tol.time_sec, dist_km |-> tol.dist_km,
      mag_tol |-> tol.mag_tol, label |-> tol.label] :
        a \in MatchCatalogs, b \in MatchCatalogs, tol \in MatchTolerances}

InitMatch == FreshCall(ProximityArgs \cup CrossCatalogArgs)

CallFindProximityMatches ==
    /\ HasArgs({"source_df", "target_df", "time_sec", "dist_km", "mag_tol", "one_to_one"})
    /\ Call("find_proximity_matches",
            Returned(find_proximity_matches(args.source_df, args.target_df, args.time_sec,
                                            args.dist_km, args.mag_tol, args.one_to_one)))

CallRunCrossCatalog ==
    /\ HasArgs({"comcat", "iscgem", "time_sec", "dist_km", "mag_tol", "label"})
    /\ Call("run_cross_catalog",
            Returned(run_cross_catalog(args.comcat, args.iscgem, args.time_sec,
                                       args.dist_km, args.mag_tol, args.label)))

NextMatch ==
    \/ CallFindProximityMatches
    \/ CallRunCrossCatalog

SpecMatch == InitMatch /\ [][NextMatch]_vars

\* ---- phase coherence: catalogs of three to MaxCoherenceRows events in
\* different 1/16 bins (phases in 96ths), alone or with one more row that
\* repeats the first event or adds a second event at its phase
CoherencePhases == {5, 20, 41, 47, 60, 84}
CoherenceRow(p) == [usgs_id |-> p, solar_phase |-> Fin(p, 96)]
CoherenceFrames ==
    UNION {{AscendingRows \o extra :
               extra \in {<<>>, <<AscendingRows[1]>>,
                          <<[usgs_id |-> 99, solar_phase |-> AscendingRows[1].solar_phase]>>}} :
           AscendingRows \in {[i \in 1 .. Cardinality(S) |-> CoherenceRow(AscendingBins(S)[i])] :
                                 S \in {T \in SUBSET CoherencePhases :
                                           Cardinality(T) \in 3 .. MaxCoherenceRows}}}
CoherenceArgs ==
    {[df |-> df, phases |-> [i \in DOMAIN df |-> df[i].solar_phase]] : df \in CoherenceFrames}

InitCoherence == FreshCall(CoherenceArgs)

CallPhaseCoherenceAnalysis ==
    /\ HasArgs({"df", "phases"})
    /\ fn = "none"
    /\ \E counts \in {[j \in 1 .. 3 |-> CoherenceCounts(args.phases, BIN_COUNTS[j])]} :
       \E top16 \in TopBinChoices(counts[1], 16) :
       \E top24 \in TopBinChoices(counts[2], 24) :
       \E top32 \in TopBinChoices(counts[3], 32) :
          Call("phase_coherence_analysis",
               phase_coherence_analysis(args.df, args.phases, <<top16, top24, top32>>))

NextCoherence == CallPhaseCoherenceAnalysis

SpecCoherence == InitCoherence /\ [][NextCoherence]_vars

\* ---- every function of the model, called once on any of its inputs
Init == InitSchuster \/ InitMfpa \/ InitLabel \/ InitStats \/ InitBins \/ InitClassify \/ InitSubB
            \/ InitSymmetry \/ InitHalfCycle \/ InitPhase \/ InitMatch
            \/ InitCoherence

Next ==
    \/ NextSchuster
    \/ NextMfpa
    \/ NextLabel
    \/ NextStats
    \/ NextBins
    \/ NextClassify
    \/ NextSubB
    \/ NextSymmetry
    \/ NextHalfCycle
    \/ NextPhase
    \/ NextMatch
    \/ NextCoherence

Spec == Init /\ [][Next]_vars

\* ------------------------------------------------- claims: Schuster engine
Called(f) == fn = f /\ ret.raised = "none"

\* every temporal cluster of the call's catalog is phase-identical
ClustersPhaseIdentical ==
    LET ids == assign_clusters(args.event_time_days, args.dt_cluster)
        ph == compute_phases(args.event_time_days, args.period_days)
    IN  \A i, j \in 1 .. Len(ids) : ids[i] = ids[j] => ph[i] = ph[j]

\* C1: on an ascending catalog whose clusters are each phase-identical at
\* the (positive) tested period, schuster_single_period returns
\* p_cluster_robust >= p_standard.  (The rationals of the model are exact,
\* and two different p-values of the model differ by far more than 1e-12.)
C1_RobustPGeStandard ==
    (/\ Called("schuster_single_period")
     /\ IsAscending(args.event_time_days)
     /\ args.period_days.n > 0
     /\ ClustersPhaseIdentical)
    => PGe(ret.value.p_cluster_robust, ret.value.p_standard)

\* the direction (reduced integer vector) of each cluster's resultant;
\* <<0, 0>> for a cluster whose phases cancel, which has no mean direction
ClusterDirections(ts, T, dt) ==
    LET ids == assign_clusters(ts, dt)
        ph == compute_phases(ts, T)
        dir(cid) ==
            LET mine == {i \in 1 .. Len(ts) : ids[i] = cid}
                RECURSIVE sum(_)
                sum(S) == IF S = {} THEN <<0, 0>>
                          ELSE LET i == CHOOSE i \in S : TRUE
                                   v == DirOf(ph[i])
                                   r == sum(S \ {i})
                               IN  <<r[1] + v[1], r[2] + v[2]>>
                tot == sum(mine)
                g == GCD(Abs(tot[1]), Abs(tot[2]))
            IN  IF g = 0 THEN <<0, 0>> ELSE <<tot[1] \div g, tot[2] \div g>>
    IN  [cid \in 0 .. NClusters(ids) - 1 |-> dir(cid)]

RemoveAt(ts, i) == SubSeq(ts, 1, i - 1) \o SubSeq(ts, i + 1, Len(ts))

\* removing event i keeps the partition into clusters (every other event
\* keeps its cluster id) and every cluster's mean direction
KeepsClusterDirections(i) ==
    LET ts == args.event_time_days
        less == RemoveAt(ts, i)
        ids == assign_clusters(ts, args.dt_cluster)
        dirs == ClusterDirections(ts, args.period_days, args.dt_cluster)
    IN  /\ assign_clusters(less, args.dt_cluster) = RemoveAt(ids, i)
        /\ ClusterDirections(less, args.period_days, args.dt_cluster) = dirs
        /\ \A cid \in DOMAIN dirs : dirs[cid] # <<0, 0>>

\* C2: p_cluster_robust depends only on the per-cluster mean directions:
\* the catalog with one event fewer (equivalently, this catalog seen as that
\* one with an event added), of the same cluster partition and the same
\* per-cluster mean directions, has the same p_cluster_robust.
C2_RobustDependsOnDirectionsOnly ==
    (/\ Called("schuster_single_period")
     /\ IsAscending(args.event_time_days)
     /\ args.period_days.n > 0)
    => \A i \in 1 .. Len(args.event_time_days) :
          KeepsClusterDirections(i)
          => schuster_single_period(RemoveAt(args.event_time_days, i),
                 args.period_days, args.dt_cluster).p_cluster_robust
             = ret.value.p_cluster_robust

\* C2 witness: an event is removed from a cluster of mixed phases (whose
\* mean vector is shorter than 1) next to another cluster, direction kept
C2_Witness ==
    /\ Called("schuster_single_period")
    /\ IsAscending(args.event_time_days)
    /\ args.period_days.n > 0
    /\ ret.value.n_clusters >= 2
    /\ ~ClustersPhaseIdentical
    /\ ret.value.p_cluster_robust # One
    /\ \E i \in 1 .. Len(args.event_time_days) :
          /\ KeepsClusterDirections(i)
          /\ \E j \in 1 .. Len(args.event_time_days) :
                LET ids == assign_clusters(args.event_time_days, args.dt_cluster)
                    ph == compute_phases(args.event_time_days, args.period_days)
                IN  ids[i] = ids[j] /\ ph[i] # ph[j]

C4_ClusterIdsMonotone ==
    /\ (Called("assign_clusters") /\ IsAscending(args.event_time_days))
       => LET ids == ret.value
          IN  /\ Len(ids) = Len(args.event_time_days)
              /\ Len(ids) > 0 => ids[1] = 0
              /\ \A i \in 2 .. Len(ids) : ids[i] - ids[i - 1] \in {0, 1}
    /\ (Called("schuster_single_period") /\ IsAscending(args.event_time_days))
       => LET ids == assign_clusters(args.event_time_days, args.dt_cluster)
          IN  /\ ret.value.n_events = Len(args.event_time_days)
              /\ ret.value.n_clusters
                 = (IF Len(ids) = 0 THEN 0 ELSE ids[Len(ids)] + 1)
              /\ ret.value.n_clusters <= ret.value.n_events

\* C4 witness: a catalog of several clusters, fewer than its events
C4_Witness ==
    /\ Called("schuster_single_period")
    /\ IsAscending(args.event_time_days)
    /\ ret.value.n_clusters > 1
    /\ ret.value.n_clusters < ret.value.n_events

\* the call signalled an error to its caller (the code has no InvalidInput
\* type of its own: any exception counts)
Rejected == ret.raised # "none"

\* C5: a zero or negative period (for a scan: a zero or negative grid
\* bound) passed to compute_phases, schuster_single_period,
\* schuster_spectrum or mfpa_scan is rejected with an error; no result
\* computed with such a period is returned.
C5_NonPositivePeriodRejected ==
    /\ (/\ fn \in {"compute_phases", "schuster_single_period"}
        /\ args.period_days.n <= 0)
       => Rejected
    /\ (/\ fn \in {"schuster_spectrum", "mfpa_scan"}
        /\ (args.min_period_days <= 0 \/ args.max_period_days <= 0))
       => Rejected

\* C6: a time array that is not ascending is reported as an error by
\* assign_clusters and schuster_single_period; it is not silently given
\* cluster ids and p-values.
C6_UnsortedTimesRejected ==
    (/\ fn \in {"assign_clusters", "schuster_single_period"}
     /\ ~IsAscending(args.event_time_days))
    => Rejected

\* --------------------------------------------------- claims: MFPA engine
\* C9: mfpa_scan and bootstrap_null_percentiles are deterministic in their
\* arguments: a call returns what the process's earlier call with the same
\* arguments returned, whatever calls and draws from the global random
\* state happened in between.
C9_SameSeedSameResult ==
    (/\ fn \in {"mfpa_scan", "bootstrap_null_percentiles"}
     /\ earlier # NoCall
     /\ earlier.fn = fn
     /\ earlier.args = args)
    => ret = earlier.ret

\* C9 witness: a scan is repeated after the global state was advanced, and
\* its bootstrap thresholds are not degenerate
C9_Witness ==
    /\ fn = "mfpa_scan"
    /\ earlier # NoCall
    /\ earlier.fn = fn
    /\ earlier.args = args
    /\ np_global_state > 0
    /\ ret.raised = "none"
    /\ ret.value.spectrum[1].p95_threshold # Zero
    /\ ret.value.spectrum[1].p95_threshold # ret.value.spectrum[1].p99_threshold

\* C10: every spectrum entry of one mfpa_scan carries the same p95 and p99
\* thresholds, those of bootstrap_null_percentiles(len(times), n_bootstrap,
\* rng_seed).
C10_OneNullForAllPeriods ==
    Called("mfpa_scan")
    => LET null == bootstrap_null_percentiles(Len(args.event_time_days),
                       args.n_bootstrap, args.rng_seed)
           spectrum == ret.value.spectrum
       IN  /\ Len(spectrum) = args.n_periods
           /\ \A j \in 1 .. Len(spectrum) :
                 /\ spectrum[j].p95_threshold = null[1]
                 /\ spectrum[j].p99_threshold = null[2]

\* C10 witness: a scan of several periods whose thresholds are not degenerate
C10_Witness ==
    /\ Called("mfpa_scan")
    /\ Len(ret.value.spectrum) >= 3
    /\ Len(args.event_time_days) >= 2
    /\ ret.value.spectrum[1].p95_threshold # Zero
    /\ ret.value.spectrum[1].p95_threshold # ret.value.spectrum[1].p99_threshold
    /\ ret.value.spectrum[1].power # ret.value.spectrum[2].power


\* ------------------------------------------- claims: the case scripts
\* the call was given zero events
EmptyInputCall ==
    \/ fn = "schuster_single_period" /\ args.event_time_days = <<>>
    \/ fn \in {"compute_rayleigh_a3", "compute_rayleigh_b1", "compute_rayleigh_b6"}
       /\ args.phases = <<>>
    \/ fn = "run_sub_a_single" /\ args.catalog = <<>>

\* <<signal strength, its p-values>> of the result r of function f
StrengthAndP(f, r) ==
    CASE f = "schuster_single_period" ->
             <<r.value.D2, {r.value.p_standard, r.value.p_cluster_robust}>>
      [] f \in {"compute_rayleigh_a3", "compute_rayleigh_b1"} ->
             <<r.value[1], {r.value[2]}>>
      [] f \in {"compute_rayleigh_b6", "run_sub_a_single"} ->
             <<IF f = "run_sub_a_single" THEN r.value.rayleigh_R ELSE r.value.R,
               {r.value.p_rayleigh}>>

\* what function f did with the empty input, given its result r
EmptyPolicy(f, r) ==
    IF r.raised # "none" THEN "error"
    ELSE LET sp == StrengthAndP(f, r)
         IN  IF IsNaN(sp[1]) \/ \E p \in sp[2] : IsNaN(p) THEN "nan"
             ELSE IF sp[1] = Zero /\ sp[2] = {One} THEN "sentinel"
             ELSE "other"

\* C7: empty input is handled by one policy, applied uniformly: given zero
\* events, schuster_single_period, compute_rayleigh (A3, B1, B6) and
\* run_sub_a_single all return the sentinel (R = 0 / D2 = 0, p = 1) or all
\* signal an error, and none returns NaN: each does what
\* schuster_single_period does.
C7_EmptyInputOnePolicy ==
    EmptyInputCall =>
        /\ EmptyPolicy(fn, ret) \in {"sentinel", "error"}
        /\ EmptyPolicy(fn, ret) =
               EmptyPolicy("schuster_single_period",
                   Returned(schuster_single_period(<<>>, One, DEFAULT_DT_CLUSTER_DAYS)))

\* C8: for well-formed, non-empty input the guarded ratios of the result
\* records are finite numbers: the chi-square suppression percentage (0
\* when the raw chi-square is 0) and the Cramer's V max/min ratio of
\* compute_trend_analysis, also when the smallest band V is 0.
C8_GuardedRatiosFinite ==
    /\ Called("run_sub_a") =>
           \A m \in 1 .. 3 : \A j \in 1 .. 3 :
               LET row == ret.value.suppression_summary[m].by_k[j]
               IN  /\ row.chi2_suppression_pct.k = "fin"
                   /\ row.chi2_raw = Zero => row.chi2_suppression_pct = Zero
    /\ Called("compute_trend_analysis") =>
           ret.value.cramer_v_ratio_max_min.k = "fin"

\* ------------------------------------------- claims: MFPA scan results
\* the scan's grid is well formed: 0 < min_period_days <= max_period_days
GridWellFormed == 0 < args.min_period_days /\ args.min_period_days <= args.max_period_days

\* the spectrum indices whose power is strictly above the p95 threshold
FlaggedIndices(spectrum) ==
    {j \in DOMAIN spectrum : FLt(spectrum[j].p95_threshold, spectrum[j].power)}

\* C11: mfpa_scan returns exactly n_periods spectrum entries, in ascending
\* period order, each with power >= 0, and significant_periods is exactly
\* the subsequence of the entries whose power is strictly greater than the
\* 95th-percentile null threshold: an equal power is not flagged.
C11_SpectrumAndSignificant ==
    (Called("mfpa_scan") /\ GridWellFormed) =>
        LET spectrum == ret.value.spectrum
            sig == ret.value.significant_periods
            S == FlaggedIndices(spectrum)
        IN  /\ Len(spectrum) = args.n_periods
            /\ \A j \in 1 .. Len(spectrum) - 1 :
                   FLe(spectrum[j].period_days, spectrum[j + 1].period_days)
            /\ \A j \in DOMAIN spectrum : FLe(Zero, spectrum[j].power)
            /\ Len(sig) = Cardinality(S)
            /\ \A j \in S :
                   LET e == sig[Cardinality({i \in S : i <= j})]
                   IN  /\ e.period_days = spectrum[j].period_days
                       /\ e.power = spectrum[j].power
                       /\ e.p_mfpa = spectrum[j].p_mfpa
                       /\ e.a1b_consistency = spectrum[j].a1b_consistency

\* a scan with a flagged period and a period whose power equals its threshold
C11_Witness ==
    /\ Called("mfpa_scan")
    /\ GridWellFormed
    /\ args.n_periods = 3
    /\ ret.value.significant_periods # <<>>
    /\ \E j \in DOMAIN ret.value.spectrum :
           /\ ret.value.spectrum[j].power = ret.value.spectrum[j].p95_threshold
           /\ FLt(Zero, ret.value.spectrum[j].power)

\* ----------------------------------------- claims: A1b consistency label
\* floor(365.25 / period) for a period > 0
FloorYearOverPeriod(T) == (1461 * T.d) \div (4 * T.n)

PositivePeriod == args.period_days.k = "fin" /\ args.period_days.n > 0

\* C12: the predicted peak phases are evaluated exactly at
\* (k * period / 365.25) mod 1 for k = 0 .. floor(365.25 / period) and at
\* no other k: the label is the one of the intervals those phases hit.  In
\* particular a period longer than 365.25 days is, with the default
\* intervals, labelled inconsistent with all intervals.
C12_HarmonicsUpToFloor ==
    (Called("a1b_consistency_label") /\ PositivePeriod) =>
        /\ ret.value = a1b_label_of(HitIndices(args.period_days, args.intervals,
                                    0 .. FloorYearOverPeriod(args.period_days)))
        /\ (FloorYearOverPeriod(args.period_days) = 0 /\ args.intervals = A1B_INTERVALS)
           => ret.value = "inconsistent with all A1b intervals"

\* the intervals hit by the peaks the function evaluates
HitsOfCall ==
    LET fl == FloorYearOverPeriod(args.period_days)
    IN  HitIndices(args.period_days, args.intervals, 0 .. (IF fl > 1 THEN fl ELSE 1))

\* C13: the label is a function only of the set of baseline intervals hit
\* by at least one predicted peak, by the table: none, {1}, {1,2}, {1,3},
\* {2,3}, {1,2,3} have labels of their own, interval 2 alone and interval 3
\* alone get the generic "consistent with intervals i" fallback.
C13_LabelTable ==
    (Called("a1b_consistency_label") /\ PositivePeriod) =>
        LET H == HitsOfCall
        IN  /\ H = {} <=> ret.value = "inconsistent with all A1b intervals"
            /\ H = {1} <=> ret.value = "consistent with interval 1 only"
            /\ H = {1, 2} <=> ret.value = "consistent with intervals 1+2"
            /\ H = {1, 3} <=> ret.value = "consistent with intervals 1+3 (6-month)"
            /\ H = {2, 3} <=> ret.value = "consistent with intervals 2+3"
            /\ H = {1, 2, 3} <=>
                   ret.value = "consistent with all three intervals (4-month if applicable)"
            /\ H = {2} <=> ret.value = "consistent with intervals 2"
            /\ H = {3} <=> ret.value = "consistent with intervals 3"

\* a call whose peaks hit intervals 1 and 3 only
C13_Witness ==
    /\ Called("a1b_consistency_label")
    /\ PositivePeriod
    /\ args.intervals = A1B_INTERVALS
    /\ HitsOfCall = {1, 3}
    /\ ret.value = "consistent with intervals 1+3 (6-month)"

\* ------------------------------------------------ claims: elevated bins
\* count > n/k + sqrt(n/k), in integers: count*k - n > sqrt(n*k)
StrictlyAboveOneSd(count, n, k) ==
    count * k - n > 0 /\ (count * k - n) * (count * k - n) > n * k

\* count = n/k + sqrt(n/k)
EqualsOneSd(count, n, k) ==
    count * k - n >= 0 /\ (count * k - n) * (count * k - n) = n * k

\* the bins, from 0, that the call in ret reports as elevated
ReportedElevated ==
    IF fn = "identify_elevated_bins"
    THEN {ret.value[j] : j \in DOMAIN ret.value}
    ELSE {i \in 0 .. args.k - 1 :
             \E j \in DOMAIN ret.value :
                 /\ ret.value[j].phase_start <= Round6(Fin(i, args.k))
                 /\ Round6(Fin(i + 1, args.k)) <= ret.value[j].phase_end}

\* the counts, their total and the number of bins of the call
CallCounts == IF fn = "identify_elevated_bins" THEN args.obs ELSE args.bin_counts

\* C14: bin i is reported elevated iff observed[i] > n/k + sqrt(n/k),
\* strictly: a bin whose count equals the threshold is not elevated and
\* every bin strictly above it is, by identify_elevated_bins and by
\* find_elevated_intervals.
C14_ElevatedIffAboveThreshold ==
    (Called("identify_elevated_bins") \/ Called("find_elevated_intervals_a3")) =>
        LET counts == CallCounts
            k == Len(counts)
            n == SumCounts(counts)
        IN  \A i \in 0 .. k - 1 :
                i \in ReportedElevated <=> StrictlyAboveOneSd(counts[i + 1], n, k)

\* counts with one bin exactly at the threshold and one above it
C14_Witness ==
    /\ Called("identify_elevated_bins")
    /\ LET k == Len(args.obs)
           n == SumCounts(args.obs)
       IN  /\ \E i \in 1 .. k : /\ EqualsOneSd(args.obs[i], n, k)
                                /\ i - 1 \notin ReportedElevated
           /\ \E i \in 1 .. k : /\ StrictlyAboveOneSd(args.obs[i], n, k)
                                /\ i - 1 \in ReportedElevated

\* the elevated bins, from 0, given to the merge of the call in ret
ElevatedOfCall ==
    IF fn = "merge_adjacent_bins"
    THEN {args.elevated[j] : j \in DOMAIN args.elevated}
    ELSE {i \in 0 .. args.k - 1 :
             StrictlyAboveOneSd(args.bin_counts[i + 1], args.n, args.k)}

\* the merged ranges <<first bin, last bin>> the call returned
RangesOfCall ==
    IF fn = "merge_adjacent_bins" THEN ret.value
    ELSE [j \in DOMAIN ret.value |->
             <<CHOOSE b \in 0 .. args.k : Round6(Fin(b, args.k)) = ret.value[j].phase_start,
               (CHOOSE b \in 0 .. args.k : Round6(Fin(b, args.k)) = ret.value[j].phase_end) - 1>>]

\* the merge applied again to the elevated bins rebuilt from the ranges
MergedAgain(ranges) ==
    LET bins == UNION {ranges[j][1] .. ranges[j][2] : j \in DOMAIN ranges}
    IN  IF fn = "merge_adjacent_bins"
        THEN merge_adjacent_bins(AscendingList(bins), args.k)
        ELSE RunScan([i \in 1 .. args.k |-> i - 1 \in bins], args.k, 0)

\* C15: merging returns exactly the maximal runs of consecutive elevated
\* bins in linear bin order: ascending, disjoint, non-adjacent ranges whose
\* union is the set of elevated bins; bin k-1 and bin 0 are never joined;
\* merging the bins of the result again returns the same result.
C15_MaximalRuns ==
    (Called("merge_adjacent_bins") \/ Called("find_elevated_intervals_a3")) =>
        LET R == RangesOfCall
            E == ElevatedOfCall
        IN  /\ \A j \in DOMAIN R : 0 <= R[j][1] /\ R[j][1] <= R[j][2] /\ R[j][2] < args.k
            /\ \A j \in 1 .. Len(R) - 1 : R[j][2] + 1 < R[j + 1][1]
            /\ UNION {R[j][1] .. R[j][2] : j \in DOMAIN R} = E
            /\ (0 \in E /\ args.k - 1 \in E /\ E # 0 .. args.k - 1) =>
                   (Len(R) >= 2 /\ R[1][1] = 0 /\ R[Len(R)][2] = args.k - 1)
            /\ MergedAgain(R) = ret.value

\* the first and the last bin are elevated, a bin between them is not, and
\* a run of two bins is merged
C15_Witness ==
    /\ Called("merge_adjacent_bins")
    /\ 0 \in ElevatedOfCall
    /\ args.k - 1 \in ElevatedOfCall
    /\ Len(ret.value) = 2
    /\ ret.value[1] = <<0, 1>>
    /\ ret.value[2][1] = args.k - 1

\* -------------------------------------- claims: interval classification
\* overlap(interval, baseline) / width(interval) > 1/2, without dividing
OverHalfInside(ps, pe, baseline) ==
    LET lo == FMax(ps, baseline.phase_start)
        hi == FMin(pe, baseline.phase_end)
    IN  /\ FLt(ps, pe)
        /\ FLt(lo, hi)
        /\ FLt(FSub(pe, ps), FMul(Fin(2, 1), FSub(hi, lo)))

\* exactly half of the interval lies in the baseline
HalfInside(ps, pe, baseline) ==
    /\ FLt(ps, pe)
    /\ FSub(pe, ps) = FMul(Fin(2, 1), FSub(FMin(pe, baseline.phase_end),
                                        FMax(ps, baseline.phase_start)))

\* C16: classify_interval answers "matches interval <id>" iff
\* overlap(interval, baseline) / width(interval) > 0.5, strictly, for that
\* baseline, and "new interval" otherwise: for an overlap of exactly one
\* half, an interval disjoint from every baseline, an interval of zero or
\* negative width.
C16_MatchIffOverHalf ==
    Called("classify_interval") =>
        LET ps == args.phase_start
            pe == args.phase_end
            B == A1B_BASELINE_INTERVALS
        IN  /\ \A i \in DOMAIN B :
                   ret.value = MatchLabel(B[i].id) => OverHalfInside(ps, pe, B[i])
            /\ ret.value = "new interval" <=>
                   \A i \in DOMAIN B : ~OverHalfInside(ps, pe, B[i])
            /\ FLe(pe, ps) => ret.value = "new interval"

\* an interval with exactly half its width in baseline 1
C16_Witness ==
    /\ Called("classify_interval")
    /\ HalfInside(args.phase_start, args.phase_end, A1B_BASELINE_INTERVALS[1])
    /\ ret.value = "new interval"

\* the baselines that more than half of the call's interval lies in
BaselinesOverHalf ==
    {i \in DOMAIN A1B_BASELINE_INTERVALS :
        OverHalfInside(args.phase_start, args.phase_end, A1B_BASELINE_INTERVALS[i])}

\* The case of C17 (an interval more than half inside two baselines) does
\* not arise: the baselines are a constant of the module and lie apart, so
\* at most one of them holds more than half of any interval.
AtMostOneBaselineOverHalf ==
    Called("classify_interval") => Cardinality(BaselinesOverHalf) <= 1

\* ---- C18: a baseline interval is reported "survives" for a method exactly
\* when, at k=24, a recovered interval of that method is classified as
\* matching it, and "absent" otherwise; the k=16 and k=32 intervals have no
\* say in interval_survival_summary
RecoveredMatches(method, j, id) ==
    \E i \in DOMAIN ret.value.by_method[method][j].recovered_intervals :
        ret.value.by_method[method][j].recovered_intervals[i].classification
            = MatchLabel(id)

C18_SurvivesIffMatchedAtK24 ==
    Called("run_sub_b") =>
        \A b \in DOMAIN A1B_BASELINE_INTERVALS : \A m \in 1 .. 3 :
            /\ ret.value.interval_survival_summary[b][m] \in {"survives", "absent"}
            /\ ret.value.interval_survival_summary[b][m] = "survives"
                   <=> RecoveredMatches(SubBMethods[m], 2, A1B_BASELINE_INTERVALS[b].id)

\* a method whose k=16 run recovers a match of baseline 1 and whose k=24 run
\* does not is reported absent, next to a method reported as surviving
C18_Witness ==
    /\ Called("run_sub_b")
    /\ \E m \in 1 .. 3 :
          /\ RecoveredMatches(SubBMethods[m], 1, 1)
          /\ ~RecoveredMatches(SubBMethods[m], 2, 1)
          /\ ret.value.interval_survival_summary[1][m] = "absent"
    /\ \E m \in 1 .. 3 : ret.value.interval_survival_summary[1][m] = "survives"

\* ------------------------------------------------- claims: symmetry tests
\* the measure of the part of baseline idx that one interval covers, doubled,
\* against the baseline's width
CoversOverHalf(idx, ei) ==
    LET lo == IF ei.phase_start > B1_A1B_INTERVALS[idx][1]
              THEN ei.phase_start ELSE B1_A1B_INTERVALS[idx][1]
        hi == IF ei.phase_end < B1_A1B_INTERVALS[idx][2]
              THEN ei.phase_end ELSE B1_A1B_INTERVALS[idx][2]
    IN  hi > lo /\ 2 * (hi - lo) > B1_A1B_INTERVALS[idx][2] - B1_A1B_INTERVALS[idx][1]

AppearsIn(idx, elevated) == \E i \in DOMAIN elevated : CoversOverHalf(idx, elevated[i])

SymmetricBaselines ==
    {idx \in 1 .. 3 : AppearsIn(idx, args.elevated_nh) /\ AppearsIn(idx, args.elevated_sh)}

Test1Intervals == <<ret.value.interval_1, ret.value.interval_2, ret.value.interval_3>>

\* ---- C19: test_1_global_symmetry marks a baseline symmetric exactly when a
\* single elevated interval of each hemisphere covers more than half of it, and
\* classifies "fully symmetric" for three symmetric baselines, "partially
\* symmetric" for one or two and "asymmetric" for none
C19_SymmetryRuleTable ==
    Called("test_1_global_symmetry") =>
        /\ \A idx \in 1 .. 3 :
              /\ Test1Intervals[idx].in_nh = AppearsIn(idx, args.elevated_nh)
              /\ Test1Intervals[idx].in_sh = AppearsIn(idx, args.elevated_sh)
              /\ Test1Intervals[idx].symmetric = (idx \in SymmetricBaselines)
        /\ ret.value.classification =
              CASE Cardinality(SymmetricBaselines) = 3 -> "fully symmetric"
                [] Cardinality(SymmetricBaselines) \in {1, 2} -> "partially symmetric"
                [] Cardinality(SymmetricBaselines) = 0 -> "asymmetric"

\* one baseline in both hemispheres, one in a single hemisphere only
C19_Witness ==
    /\ Called("test_1_global_symmetry")
    /\ ret.value.classification = "partially symmetric"
    /\ ret.value.interval_1.symmetric
    /\ ret.value.interval_2.in_nh /\ ~ret.value.interval_2.in_sh

\* two intervals that cover a third of baseline 1 each: it does not appear
C19_WitnessTwoThirds ==
    /\ Called("test_1_global_symmetry")
    /\ Len(args.elevated_nh) = 2
    /\ \A i \in 1 .. 2 :
          /\ args.elevated_nh[i].phase_start >= B1_A1B_INTERVALS[1][1]
          /\ args.elevated_nh[i].phase_end <= B1_A1B_INTERVALS[1][2]
    /\ ~ret.value.interval_1.in_nh

\* the decisions of test 2: its result without the raw phase_offset
Test2Decision(result) ==
    [interval_1_nh |-> result.interval_1_nh, interval_1_sh |-> result.interval_1_sh]

CentresBeyondTolerance(result) ==
    result.phase_offset # PyNone /\ FLt(BIN_WIDTH_K24, FAbs(result.phase_offset))

CentresWithinTolerance(result) ==
    result.phase_offset # PyNone /\ FLe(FAbs(result.phase_offset), BIN_WIDTH_K24)

\* ---- C20: test_2_interval_1_symmetry decides whether the recovered centres
\* of baseline 1 differ by more than 1/24: a result for centres further apart
\* than 1/24 carries another decision than any result for centres within 1/24
C20_ToleranceDecided ==
    (Called("test_2_interval_1_symmetry") /\ CentresBeyondTolerance(ret.value)) =>
        \A a \in SymmetryArgs :
            LET within == test_2_interval_1_symmetry(a.elevated_nh, a.elevated_sh)
            IN  CentresWithinTolerance(within)
                    => Test2Decision(within) # Test2Decision(ret.value)

\* what the code does: whenever an offset is computed the flags are both
\* True, whatever the size of the offset
Test2FlagsIgnoreOffset ==
    (Called("test_2_interval_1_symmetry") /\ ret.value.phase_offset # PyNone) =>
        Test2Decision(ret.value) = [interval_1_nh |-> TRUE, interval_1_sh |-> TRUE]

\* ------------------------------------------------ claims: half-cycle test
\* a centre of the call in 48ths of a cycle
Centre48(ei) == ei.mean_phase.n * (48 \div ei.mean_phase.d)

\* the distance around the circle, in 48ths, between an SH centre and the
\* point half a cycle after an NH centre
CircularDistance48(c, sh) ==
    LET d == Abs(sh - ((c + 24) % 48)) IN IF d <= 48 - d THEN d ELSE 48 - d

HalfCyclePairs ==
    {p \in (DOMAIN args.elevated_nh) \X (DOMAIN args.elevated_sh) :
        CircularDistance48(Centre48(args.elevated_nh[p[1]]),
                           Centre48(args.elevated_sh[p[2]])) <= 2}

ShiftedSecs(t, k, T) ==
    IF t = NegTiny THEN (IF k = 0 THEN NegTiny ELSE FMul(Fin(k, 1), T))
    ELSE FAdd(t, FMul(Fin(k, 1), T))

IsMultipleOf(t, T) == t.k = "fin" /\ FMod1(FDiv(t, T)) = Zero

\* ---- C22: every phase of compute_phase lies in [0, 1), is 0 for t = 0 and
\* for exact multiples of the period, and is the same for t + k * T, k integer
C22_PhaseLaw ==
    Called("compute_phase") =>
        /\ Len(ret.value) = Len(args.solar_secs)
        /\ \A i \in DOMAIN ret.value :
              /\ FLe(Zero, ret.value[i]) /\ FLt(ret.value[i], One)
              /\ IsMultipleOf(args.solar_secs[i], args.year_secs) => ret.value[i] = Zero
        /\ \A k \in -2 .. 2 :
              compute_phase([i \in DOMAIN args.solar_secs |->
                                ShiftedSecs(args.solar_secs[i], k, args.year_secs)],
                            args.year_secs) = ret.value

\* the law on the times that are not tiny negatives
C22_PhaseLawOnGrid ==
    (Called("compute_phase") /\ \A i \in DOMAIN args.solar_secs : args.solar_secs[i] # NegTiny)
        => C22_PhaseLaw

\* -------------------------------------------- claims: proximity matching
\* ---- C23: the strict tolerances never give more one-to-one pairs than the
\* primary tolerances give on the same two catalogs
C23_StrictNeverMoreThanPrimary ==
    (Called("run_cross_catalog") /\ args.label = "primary") =>
        run_cross_catalog(args.comcat, args.iscgem, 30, 25, 2, "strict").matched
            <= ret.value.matched

\* what does hold: each source has a candidate under the primary tolerances
\* whenever it has one under the strict ones, so without the one-to-one pass
\* the strict pairs are never more
C23_StrictNeverMoreSharedTargets ==
    (Called("find_proximity_matches") /\ args.time_sec = 60 /\ ~args.one_to_one) =>
        Len(find_proximity_matches(args.source_df, args.target_df, 30, 25, 2, FALSE))
            <= Len(ret.value)

SourcesOf(pairs) == {pairs[i][1] : i \in DOMAIN pairs}
TargetsOf(pairs) == {pairs[i][2] : i \in DOMAIN pairs}

\* ---- C24: with one_to_one every source index and every target index occurs
\* in at most one pair, so the pairs are at most min(|source|, |target|) and
\* comcat_only, iscgem_only are non-negative and add up with matched to the
\* catalog sizes; without it every source still occurs at most once
C24_OneToOnePairs ==
    /\ Called("find_proximity_matches") =>
          /\ Cardinality(SourcesOf(ret.value)) = Len(ret.value)
          /\ SourcesOf(ret.value) \subseteq 0 .. Len(args.source_df) - 1
          /\ TargetsOf(ret.value) \subseteq 0 .. Len(args.target_df) - 1
          /\ args.one_to_one =>
                /\ Cardinality(TargetsOf(ret.value)) = Len(ret.value)
                /\ Len(ret.value) <= Len(args.source_df)
                /\ Len(ret.value) <= Len(args.target_df)
    /\ Called("run_cross_catalog") =>
          /\ ret.value.comcat_only >= 0 /\ ret.value.iscgem_only >= 0
          /\ ret.value.matched + ret.value.comcat_only = Len(args.comcat)
          /\ ret.value.matched + ret.value.iscgem_only = Len(args.iscgem)

\* two sources whose best target is the same one: one pair with one_to_one
C24_Witness ==
    /\ Called("find_proximity_matches")
    /\ args.one_to_one
    /\ Len(ret.value) = 1
    /\ Len(find_proximity_matches(args.source_df, args.target_df, args.time_sec,
                                  args.dist_km, args.mag_tol, FALSE)) = 2

\* the same two sources share the target without one_to_one
C24_WitnessShared ==
    /\ Called("find_proximity_matches")
    /\ ~args.one_to_one
    /\ Len(ret.value) = 2
    /\ Cardinality(TargetsOf(ret.value)) = 1

\* ---------------------------------------------- claims: phase coherence
CoherenceOf == ret.value[1]

CoherenceTopRanges ==
    <<CoherenceOf.k16.top3_phase_ranges, CoherenceOf.k24.top3_phase_ranges,
      CoherenceOf.k32.top3_phase_ranges>>

\* the phase x/192 lies in a top-3 bin of the j-th bin count
InTopBin(x, j) ==
    \E i \in DOMAIN CoherenceTopRanges[j] :
        LET lo == CoherenceTopRanges[j][i][1]
            hi == CoherenceTopRanges[j][i][2]
        IN  lo.n * (192 \div lo.d) <= x /\ x < hi.n * (192 \div hi.d)

InCombined(x) ==
    \E i \in DOMAIN CoherenceOf.combined_elevated_intervals :
        LET lo == CoherenceOf.combined_elevated_intervals[i][1]
            hi == CoherenceOf.combined_elevated_intervals[i][2]
        IN  lo.n * (192 \div lo.d) <= x /\ x < hi.n * (192 \div hi.d)

\* the total width of the combined intervals, in 96ths
CombinedWidth96 ==
    LET w(i) == LET lo == CoherenceOf.combined_elevated_intervals[i][1]
                    hi == CoherenceOf.combined_elevated_intervals[i][2]
                IN  hi.n * (96 \div hi.d) - lo.n * (96 \div lo.d)
    IN  SumTo(w, Len(CoherenceOf.combined_elevated_intervals))

SpectrumOf == ret.value

\* what schuster_single_period returns for the call's times and threshold
\* at one period of the grid
SinglePeriodAt(T) ==
    schuster_single_period(args.event_time_days, T, args.dt_cluster)

SameAsSinglePeriod(entry) ==
    \E single \in {SinglePeriodAt(entry.period_days)} :
        /\ entry.D2 = single.D2
        /\ entry.p_standard = single.p_standard
        /\ entry.p_cluster_robust = single.p_cluster_robust

\* C26: every entry of the list schuster_spectrum returns has the D2,
\* p_standard and p_cluster_robust that schuster_single_period returns
\* for the same times, the entry's period and the same threshold; the
\* list has one entry per grid period.
C26_SpectrumEntriesAreSinglePeriod ==
    Called("schuster_spectrum") =>
        /\ Len(SpectrumOf) = args.n_periods
        /\ \A i \in 1 .. Len(SpectrumOf) : SameAsSinglePeriod(SpectrumOf[i])

\* a scan of a catalog with a cluster of several events and a lone event,
\* where the two p-values of some entry differ
C26_Witness ==
    /\ Called("schuster_spectrum")
    /\ \E cluster_ids \in {assign_clusters(args.event_time_days, args.dt_cluster)} :
          /\ NClusters(cluster_ids) >= 2
          /\ NClusters(cluster_ids) < Len(args.event_time_days)
    /\ \E i \in 1 .. Len(SpectrumOf) :
          /\ IsFinite(SpectrumOf[i].D2)
          /\ SpectrumOf[i].p_standard # SpectrumOf[i].p_cluster_robust

\* a scan of the empty catalog, where schuster_single_period returns early
C26_WitnessEmpty ==
    /\ Called("schuster_spectrum")
    /\ args.event_time_days = <<>>
    /\ \E i \in 1 .. Len(SpectrumOf) : SpectrumOf[i].D2 = Zero

\* ---------------------------------------------------------------- C27
\* the interval is a run of whole bins of the 16-bin grid
IsRunOfBins16(phase_start, phase_end) ==
    \E sb \in 0 .. 15 : \E eb \in sb .. 15 :
        <<phase_start, phase_end>> = bins_to_phase_interval(sb, eb, 16)

Baseline2 == A1B_BASELINE_INTERVALS[2]

LessThanHalfInBaseline2(phase_start, phase_end) ==
    FLt(overlap_fraction(phase_start, phase_end,
                         Baseline2.phase_start, Baseline2.phase_end), Fin(1, 2))

\* C27: classify_interval never answers "matches interval 2" for a run of
\* whole 1/16 bins, less than half of which lies in the baseline; and in
\* what run_sub_b_single returns at k = 16 no recovered interval is
\* classified "matches interval 2" and interval_2 does not survive.
C27_Interval2NeverMatchedAtK16 ==
    /\ (Called("classify_interval") /\ IsRunOfBins16(args.phase_start, args.phase_end)) =>
          /\ ret.value # MatchLabel(Baseline2.id)
          /\ LessThanHalfInBaseline2(args.phase_start, args.phase_end)
    /\ (Called("run_sub_b_single") /\ args.k = 16) =>
          /\ \A j \in DOMAIN ret.value.recovered_intervals :
                ret.value.recovered_intervals[j].classification # MatchLabel(Baseline2.id)
          /\ ~ret.value.baseline_survival[2].survives
          /\ ret.value.baseline_survival[2].matching_recovered = <<>>

\* at k = 16 the bin that starts at 0.625 is recovered with an event of
\* the baseline interval in it
C27_Witness ==
    /\ Called("run_sub_b_single")
    /\ args.k = 16
    /\ \E j \in DOMAIN ret.value.recovered_intervals :
          /\ ret.value.recovered_intervals[j].phase_start = Baseline2.phase_start
          /\ ret.value.recovered_intervals[j].n_events >= 1
          /\ ret.value.recovered_intervals[j].classification = "new interval"

\* classify_interval asked about a run of 1/16 bins that holds the whole
\* baseline interval
C27_WitnessClassify ==
    /\ Called("classify_interval")
    /\ IsRunOfBins16(args.phase_start, args.phase_end)
    /\ FLe(args.phase_start, Baseline2.phase_start)
    /\ FLe(Baseline2.phase_end, args.phase_end)
    /\ ret.value = "new interval"

\* ---------------------------------------------------------------- C28
\* the baseline list in every order
BaselineOrders ==
    {[i \in DOMAIN A1B_BASELINE_INTERVALS |-> A1B_BASELINE_INTERVALS[p[i]]] :
        p \in {q \in [DOMAIN A1B_BASELINE_INTERVALS -> DOMAIN A1B_BASELINE_INTERVALS] :
                  \A a, b \in DOMAIN q : q[a] = q[b] => a = b}}

\* the baselines more than half of the interval lies in
BaselinesMatched(phase_start, phase_end) ==
    {b \in DOMAIN A1B_BASELINE_INTERVALS :
        MatchesBaseline(overlap_fraction(phase_start, phase_end,
                                         A1B_BASELINE_INTERVALS[b].phase_start,
                                         A1B_BASELINE_INTERVALS[b].phase_end))}

\* C28: the label classify_interval returns is the label the same loop
\* returns over the baselines in any other order, and at most one
\* baseline holds more than half of the interval.
C28_LabelIndependentOfOrder ==
    Called("classify_interval") =>
        /\ Cardinality(BaselinesMatched(args.phase_start, args.phase_end)) <= 1
        /\ \A baselines \in BaselineOrders :
              ClassifyFrom(args.phase_start, args.phase_end, baselines) = ret.value

\* an interval matched by the baseline that is last in the list, and so
\* first in other orders
C28_Witness ==
    /\ Called("classify_interval")
    /\ ret.value = MatchLabel(3)
    /\ Cardinality(BaselineOrders) = 6

\* ---------------------------------------------------------------- C29
TrendOf == ret.value
HydroSupport == TrendOf.prediction_support.hydrological_loading
SolarGeoSupport == TrendOf.prediction_support.solar_geometric
SupportLevels == {"supported", "partially", "not supported"}

\* C29: in what compute_trend_analysis returns, hydrological_loading is
\* "supported" exactly when solar_geometric is "not supported", and the
\* other way round, and one is "partially" exactly when the other is; so
\* the two are never "supported" together.
C29_HydroSolarMirror ==
    Called("compute_trend_analysis") =>
        /\ HydroSupport \in SupportLevels
        /\ SolarGeoSupport \in SupportLevels
        /\ HydroSupport = "supported" <=> SolarGeoSupport = "not supported"
        /\ HydroSupport = "not supported" <=> SolarGeoSupport = "supported"
        /\ HydroSupport = "partially" <=> SolarGeoSupport = "partially"
        /\ ~(HydroSupport = "supported" /\ SolarGeoSupport = "supported")

\* the combination of trend and M7.5+ significance of the result
TrendCase(trend_classification, m75_significant) ==
    /\ Called("compute_trend_analysis")
    /\ TrendOf.trend_classification = trend_classification
    /\ TrendOf.m75_significant = m75_significant

\* a flat trend with a significant M7.5+ band: solar_geometric supported,
\* hydrological_loading not
C29_Witness ==
    /\ TrendCase("flat", TRUE)
    /\ SolarGeoSupport = "supported"
    /\ HydroSupport = "not supported"

C29_WitnessFlatNotSignificant == TrendCase("flat", FALSE) /\ HydroSupport = "partially"
C29_WitnessIncreasingSignificant == TrendCase("increasing", TRUE) /\ HydroSupport = "not supported"
C29_WitnessIncreasingNotSignificant == TrendCase("increasing", FALSE) /\ HydroSupport = "partially"
C29_WitnessDecreasingSignificant == TrendCase("decreasing", TRUE) /\ HydroSupport = "partially"
C29_WitnessDecreasingNotSignificant == TrendCase("decreasing", FALSE) /\ HydroSupport = "supported"

\* ---------------------------------------------------------------- C30
\* the bin counts of a call of one of the interval functions, and their
\* number of bins and total
IsIntervalsCall ==
    \/ Called("find_elevated_intervals_a3")
    \/ Called("find_elevated_intervals_b1")
    \/ Called("get_elevated_intervals")

CountsOfCall == IF "bin_counts" \in DOMAIN args THEN args.bin_counts ELSE args.obs

\* what each of the four implementations yields for the counts of the call
IntervalsA3 == find_elevated_intervals_a3(CountsOfCall, args.k, SumCounts(CountsOfCall))
IntervalsB1 == find_elevated_intervals_b1(CountsOfCall, args.k, SumCounts(CountsOfCall))
IntervalsSubC ==
    get_elevated_intervals(CountsOfCall, args.k, Fin(SumCounts(CountsOfCall), args.k))
IntervalsSubB ==
    LET merged_bins ==
            merge_adjacent_bins(
                identify_elevated_bins(CountsOfCall, Fin(SumCounts(CountsOfCall), args.k)),
                args.k)
    IN  [j \in DOMAIN merged_bins |->
            bins_to_phase_interval(merged_bins[j][1], merged_bins[j][2], args.k)]

\* the result of the call is the one of the four that was called
ResultIsOfCall(a3, b1, subc) ==
    ret.value = (IF fn = "find_elevated_intervals_a3" THEN a3
                 ELSE IF fn = "find_elevated_intervals_b1" THEN b1
                 ELSE subc)

\* sub-B and sub-C: the same intervals, exactly start_bin/k to
\* (last_bin+1)/k, non-empty and within [0, 1]
SubBAndSubCAgree(subb, subc) ==
    /\ Len(subc) = Len(subb)
    /\ \A j \in DOMAIN subb :
          /\ subc[j].phase_start = subb[j][1]
          /\ subc[j].phase_end = subb[j][2]
          /\ \E sb \in 0 .. args.k - 1 : \E eb \in sb .. args.k - 1 :
                /\ subb[j][1] = Fin(sb, args.k)
                /\ subb[j][2] = Fin(eb + 1, args.k)
          /\ FLe(Zero, subb[j][1])
          /\ FLt(subb[j][1], subb[j][2])
          /\ FLe(subb[j][2], One)

\* a bound in millionths is exactly the given fraction
ExactMillionths(m, x) == Fin(m, 1000000) = x

\* A3 has exactly the bounds of sub-B
ExactInA3(a3, subb) ==
    /\ Len(a3) = Len(subb)
    /\ \A j \in DOMAIN a3 :
          /\ ExactMillionths(a3[j].phase_start, subb[j][1])
          /\ ExactMillionths(a3[j].phase_end, subb[j][2])

\* A3 has the bounds of sub-B rounded to 6 decimals
RoundedInA3(a3, subb) ==
    /\ Len(a3) = Len(subb)
    /\ \A j \in DOMAIN a3 :
          /\ a3[j].phase_start = Round6(subb[j][1])
          /\ a3[j].phase_end = Round6(subb[j][2])
          /\ 0 <= a3[j].phase_start
          /\ a3[j].phase_start < a3[j].phase_end
          /\ a3[j].phase_end <= 1000000

\* the statement as first made: all four yield the same intervals,
\* A3 and B1 too having exactly the bounds start_bin/k and (last_bin+1)/k
C30_FourImplementationsSameIntervals ==
    IsIntervalsCall =>
        \E a3 \in {IntervalsA3} : \E b1 \in {IntervalsB1} :
        \E subb \in {IntervalsSubB} : \E subc \in {IntervalsSubC} :
            /\ ResultIsOfCall(a3, b1, subc)
            /\ SubBAndSubCAgree(subb, subc)
            /\ a3 = b1
            /\ ExactInA3(a3, subb)

\* C30: for the same counts, n and k the four implementations yield the
\* same sequence of bin runs.  Sub-B and sub-C return exactly start_bin/k
\* and (last_bin+1)/k; A3 and B1 return these two bounds rounded to 6
\* decimals, still with phase_start < phase_end and both in [0, 1].
C30_SameRunsRoundedInA3B1 ==
    IsIntervalsCall =>
        \E a3 \in {IntervalsA3} : \E b1 \in {IntervalsB1} :
        \E subb \in {IntervalsSubB} : \E subc \in {IntervalsSubC} :
            /\ ResultIsOfCall(a3, b1, subc)
            /\ SubBAndSubCAgree(subb, subc)
            /\ a3 = b1
            /\ RoundedInA3(a3, subb)

\* sub-C returns an interval whose start A3 reports rounded
C30_Witness ==
    /\ Called("get_elevated_intervals")
    /\ \E a3 \in {IntervalsA3} : \E j \in DOMAIN ret.value :
          /\ ~ExactMillionths(a3[j].phase_start, ret.value[j].phase_start)
          /\ a3[j].phase_start = Round6(ret.value[j].phase_start)

\* A3 returns two runs
C30_WitnessTwoRuns ==
    /\ Called("find_elevated_intervals_a3")
    /\ Len(ret.value) = 2
    /\ Len(IntervalsSubB) = 2

====
